---- MODULE Spec2Model ----
(***************************************************************************)
(* Model of the Gemini alignment batch: gemini_automator.py (main run),    *)
(* reprocess_partial.py (re-run over a folder list), count_files.py and    *)
(* get_incomplete_list.py (progress tracker).                              *)
(*                                                                         *)
(* Text is a sequence of one-character strings, so that the parser, the    *)
(* file-name sanitiser and the resolver compute on characters as the       *)
(* Python code does.                                                       *)
(***************************************************************************)
EXTENDS Integers, Sequences, FiniteSets, TLC

(***************************************************************************)
(* Text helpers (Python str methods used by the source)                    *)
(***************************************************************************)

\* str.isspace on one character, as used by \s and str.strip()
IsSpace(c) == c \in {" ", "\n", "\t", "\r"}

UpperChars ==
  <<"A", "B", "C", "D", "E", "F", "G", "H", "I", "J", "K", "L", "M",
    "N", "O", "P", "Q", "R", "S", "T", "U", "V", "W", "X", "Y", "Z">>

LowerChars ==
  <<"a", "b", "c", "d", "e", "f", "g", "h", "i", "j", "k", "l", "m",
    "n", "o", "p", "q", "r", "s", "t", "u", "v", "w", "x", "y", "z">>

\* str.lower() on one character
LowerChar(c) ==
  IF \E i \in 1..Len(UpperChars) : UpperChars[i] = c
    THEN LowerChars[CHOOSE i \in 1..Len(UpperChars) : UpperChars[i] = c]
    ELSE c

\* str.lower()
\* the text with the case of its letters kept
KeepCase(s) == s

Lower(s) == [i \in 1..Len(s) |-> LowerChar(s[i])]

SetMin(S) == CHOOSE x \in S : \A y \in S : x <= y

SetMax(S) == CHOOSE x \in S : \A y \in S : x >= y

\* str.strip()
Strip(s) ==
  LET keep == {i \in 1..Len(s) : ~IsSpace(s[i])}
  IN  IF keep = {} THEN <<>> ELSE SubSeq(s, SetMin(keep), SetMax(keep))

\* s[:k] of Python, k possibly negative
PySliceTo(s, k) ==
  IF k >= 0
    THEN SubSeq(s, 1, IF k < Len(s) THEN k ELSE Len(s))
    ELSE SubSeq(s, 1, IF Len(s) + k > 0 THEN Len(s) + k ELSE 0)

\* w occurs in s starting at index i
OccursAt(s, i, w) ==
  /\ i >= 1
  /\ i + Len(w) - 1 <= Len(s)
  /\ \A k \in 1..Len(w) : s[i + k - 1] = w[k]

\* the Python test  w in s
Contains(s, w) == \E i \in 1..(Len(s) + 1) : OccursAt(s, i, w)

\* str.endswith
EndsWith(s, w) == OccursAt(s, Len(s) - Len(w) + 1, w)

\* first index >= i that holds no whitespace (Len(s) + 1 when there is none)
SkipSpace(s, i) ==
  SetMin({j \in i..(Len(s) + 1) : j = Len(s) + 1 \/ ~IsSpace(s[j])})

\* str.split('\n')
RECURSIVE SplitLines(_)
SplitLines(s) ==
  LET nl == {i \in 1..Len(s) : s[i] = "\n"}
  IN  IF nl = {} THEN <<s>>
      ELSE <<SubSeq(s, 1, SetMin(nl) - 1)>>
             \o SplitLines(SubSeq(s, SetMin(nl) + 1, Len(s)))

(***************************************************************************)
(* parse_gemini_response                                                   *)
(***************************************************************************)

FileNameToken == <<"f", "i", "l", "e", "_", "n", "a", "m", "e">>

MatchedTextToken == <<"m", "a", "t", "c", "h", "e", "d", "_", "t", "e", "x", "t">>

\* re.sub(r'^file_name\s*,\s*matched_text\s*\n?', '', text, flags=re.IGNORECASE)
StripHeader(s) ==
  LET c == SkipSpace(s, Len(FileNameToken) + 1)
      m == SkipSpace(s, c + 1)
      e == SkipSpace(s, m + Len(MatchedTextToken))
  IN  IF /\ OccursAt(Lower(s), 1, FileNameToken)
         /\ c <= Len(s)
         /\ s[c] = ","
         /\ OccursAt(Lower(s), m, MatchedTextToken)
        THEN SubSeq(s, e, Len(s))
        ELSE s

\* "---" at index i
TripleDash(s, i) == OccursAt(s, i, <<"-", "-", "-">>)

\* first index >= i holding "-" (Len(s) + 1 when there is none)
FirstDash(s, i) ==
  SetMin({j \in i..(Len(s) + 1) : j = Len(s) + 1 \/ s[j] = "-"})

\* ---\s*([^-]+?)\s*---  at index p: the index after the closing dashes, 0 when
\* there is no match.  No dash lies between the two triples and at least one
\* character does.
MarkerEnd(s, p) ==
  IF ~TripleDash(s, p) THEN 0
  ELSE LET d == FirstDash(s, p + 3)
       IN  IF d > p + 3 /\ TripleDash(s, d) THEN d + 3 ELSE 0

\* the lookahead (?=\s*---\s*[^-]+?\s*---|$) under re.MULTILINE at index x
Lookahead(s, x) ==
  \/ MarkerEnd(s, SkipSpace(s, x)) # 0
  \/ x = Len(s) + 1
  \/ (x <= Len(s) /\ s[x] = "\n")

\* pattern1 tried at index p:
\* ---\s*([^-]+?)\s*---\s*,\s*(.+?)(?=...), re.MULTILINE | re.DOTALL
Pattern1At(s, p) ==
  LET me == MarkerEnd(s, p)
      e  == SkipSpace(s, me)
      f  == SkipSpace(s, e + 1)
      \* \s* after the comma is greedy and gives one character back to (.+?)
      \* when it ran to the end of the input
      t  == IF f <= Len(s) THEN f ELSE Len(s)
      m  == SetMin({j \in t..Len(s) : Lookahead(s, j + 1)})
  IN  IF /\ me # 0
         /\ e <= Len(s)
         /\ s[e] = ","
         /\ e < Len(s)
        THEN [ok |-> TRUE,
              file_name |-> Strip(SubSeq(s, p + 3, FirstDash(s, p + 3) - 1)),
              matched_text |-> Strip(SubSeq(s, t, m)),
              end |-> m]
        ELSE [ok |-> FALSE, file_name |-> <<>>, matched_text |-> <<>>, end |-> 0]

\* re.finditer(pattern1, ...) from index p, keeping the pairs with both parts
RECURSIVE Format1(_, _)
Format1(s, p) ==
  IF p > Len(s) THEN <<>>
  ELSE LET r == Pattern1At(s, p)
       IN  IF r.ok
             THEN (IF r.file_name # <<>> /\ r.matched_text # <<>>
                     THEN <<<<r.file_name, r.matched_text>>>>
                     ELSE <<>>)
                  \o Format1(s, r.end + 1)
             ELSE Format1(s, p + 1)

MaxFileNameLen == 200

\* one line of format 2 taken whatever stands after its first comma
Format2LineAnyText(line) ==
  LET commas == {i \in 1..Len(line) : line[i] = ","}
      c == SetMin(commas)
  IN  IF commas = {} \/ Contains(Lower(line), FileNameToken) THEN <<>>
      ELSE <<<<Strip(SubSeq(line, 1, c - 1)),
               Strip(SubSeq(line, c + 1, Len(line)))>>>>

\* one line of format 2: filename,text
Format2Line(line) ==
  LET commas == {i \in 1..Len(line) : line[i] = ","}
      c == SetMin(commas)
      file_name == Strip(SubSeq(line, 1, c - 1))
      matched_text == Strip(SubSeq(line, c + 1, Len(line)))
  IN  IF Strip(line) = <<>> \/ Contains(Lower(line), FileNameToken) THEN <<>>
      ELSE IF commas = {} THEN <<>>
      ELSE IF /\ file_name # <<>>
              /\ matched_text # <<>>
              /\ Len(file_name) < MaxFileNameLen
             THEN <<<<file_name, matched_text>>>>
             ELSE <<>>

RECURSIVE Format2(_)
Format2(lines) ==
  IF lines = <<>> THEN <<>>
  ELSE Format2Line(Head(lines)) \o Format2(Tail(lines))

\* a parser that applies both formats to every response
ParseBothFormats(response_text) ==
  LET text == StripHeader(response_text)
  IN  Format1(text, 1) \o Format2(SplitLines(Strip(text)))

parse_gemini_response(response_text) ==
  LET text == StripHeader(response_text)
      matches == Format1(text, 1)
  IN  IF matches # <<>> THEN matches
      ELSE Format2(SplitLines(Strip(text)))

(***************************************************************************)
(* save_matched_outputs: the artifact name                                 *)
(***************************************************************************)

TxtExt == <<".", "t", "x", "t">>

\* the characters of the class [<>:"/\\|?*]
ForbiddenChars == {"<", ">", ":", "\"", "/", "\\", "|", "?", "*"}

\* a name cleaning that replaces nothing
KeepChars(file_name) == file_name

\* re.sub(r'[<>:"/\\|?*]', '_', file_name)
Sanitize(file_name) ==
  [i \in 1..Len(file_name) |->
     IF file_name[i] \in ForbiddenChars THEN "_" ELSE file_name[i]]

MaxPathLen == 255

SafetyBuffer == 10

\* the name save_matched_outputs writes file_name under, in a directory whose
\* path is base_len characters long
SafeFilename(file_name, base_len) ==
  LET clean == Sanitize(file_name)
      named == IF EndsWith(clean, TxtExt) THEN clean ELSE clean \o TxtExt
      max_filename_length == MaxPathLen - base_len - SafetyBuffer
  IN  IF Len(named) > max_filename_length
        THEN PySliceTo(SubSeq(named, 1, Len(named) - Len(TxtExt)),
                       max_filename_length - Len(TxtExt)) \o TxtExt
        ELSE named

(***************************************************************************)
(* Directories: a directory is a function from file names to file texts    *)
(***************************************************************************)

EmptyDir == [n \in {} |-> <<>>]

\* a write that leaves a file that is there already as it is
WriteIfAbsent(dir, name, text) ==
  [n \in (DOMAIN dir) \cup {name} |-> IF n \in DOMAIN dir THEN dir[n] ELSE text]

\* open(path, 'w').write(text): creates the file or replaces its text
WriteFile(dir, name, text) ==
  [n \in (DOMAIN dir) \cup {name} |-> IF n = name THEN text ELSE dir[n]]

\* Path.unlink()
Unlink(dir, name) == [n \in (DOMAIN dir) \ {name} |-> dir[n]]

\* the names dir.glob("*.txt") yields
GlobTxt(dir) == {n \in DOMAIN dir : EndsWith(n, TxtExt)}

\* Path(name).stem: the name without its last suffix
Stem(name) ==
  LET dots == {i \in 2..Len(name) : name[i] = "."}
  IN  IF dots = {} THEN name ELSE SubSeq(name, 1, SetMax(dots) - 1)

(***************************************************************************)
(* The correspondence tables and the resolver                              *)
(***************************************************************************)

\* entries of the mapping table, in its order (May, October, November rows)
SEGMENT_TO_TRANSCRIPT_MAP ==
  <<<<<<"K", "o", "n", "k", " ", "P", "r", "i", "m", "e", "_", "0", "1", "0", "5", "1", "7">>,
      <<"1", " ", "M", "A", "Y", " ", "P", "R", "I", "M", "E", "_", "n", "o", "n", "_", "b", "o", "l", "d", ".", "o", "d", "t">>>>,
    <<<<"2", "n", "d", " ", "O", "c", "t", " ", "1", "7", "_", "K", "o", "n", "k", " ", "P", "r", "i", "m", "e", " ", "N", "e", "w", "s">>,
      <<"2", " ", "O", "C", "T", " ", "P", "R", "I", "M", "E", "_", "n", "o", "n", "_", "b", "o", "l", "d", ".", "o", "d", "t">>>>,
    <<<<"0", "3", " ", "n", "o", "v", " ", "1", "7", "_", "K", "o", "n", "k", " ", "P", "r", "i", "m", "e", " ", "N", "e", "w", "s">>,
      <<"3", " ", " ", "N", "O", "V", " ", " ", "P", "R", "I", "M", "E", "_", "n", "o", "n", "_", "b", "o", "l", "d", ".", "o", "d", "t">>>>,
    <<<<"k", "o", "n", "k", "a", "n", "i", " ", "p", "r", "i", "m", "e", " ", "1", "5", " ", "n", "o", "v", " ", "1", "7">>,
      <<"1", "5", " ", "N", "O", "V", " ", "P", "R", "I", "M", "E", "_", "n", "o", "n", "_", "b", "o", "l", "d", ".", "o", "d", "t">>>>>>

MONTH_FOLDER_MAP ==
  <<<<<<"a", "u", "g">>,
      <<"A", "u", "g", "u", "s", "t", "c", "l", "e", "a", "n", "e", "d">>>>,
    <<<<"j", "u", "l", "y">>,
      <<"J", "u", "l", "y", "c", "l", "e", "a", "n", "e", "d">>>>,
    <<<<"j", "u", "n", "e">>,
      <<"J", "u", "n", "e", "c", "l", "e", "a", "n", "e", "d">>>>,
    <<<<"m", "a", "y">>,
      <<"M", "a", "y", "c", "l", "e", "a", "n", "e", "d">>>>,
    <<<<"o", "c", "t", "o", "b", "e", "r">>,
      <<"O", "c", "t", "o", "b", "e", "r", "c", "l", "e", "a", "n", "e", "d">>>>,
    <<<<"n", "o", "v", "e", "m", "b", "e", "r">>,
      <<"N", "o", "v", "e", "m", "b", "e", "r", "c", "l", "e", "a", "n", "e", "d">>>>>>

\* the month/abbreviation table find_corresponding_full_transcript falls back to
month_map ==
  <<<<<<"j", "a", "n">>,
      <<"j", "a", "n", "u", "a", "r", "y">>>>,
    <<<<"f", "e", "b">>,
      <<"f", "e", "b", "r", "u", "a", "r", "y">>>>,
    <<<<"m", "a", "r">>,
      <<"m", "a", "r", "c", "h">>>>,
    <<<<"a", "p", "r">>,
      <<"a", "p", "r", "i", "l">>>>,
    <<<<"m", "a", "y">>,
      <<"m", "a", "y">>>>,
    <<<<"j", "u", "n">>,
      <<"j", "u", "n", "e">>>>,
    <<<<"j", "u", "l">>,
      <<"j", "u", "l", "y">>>>,
    <<<<"a", "u", "g">>,
      <<"a", "u", "g", "u", "s", "t">>>>,
    <<<<"s", "e", "p">>,
      <<"s", "e", "p", "t", "e", "m", "b", "e", "r">>>>,
    <<<<"o", "c", "t">>,
      <<"o", "c", "t", "o", "b", "e", "r">>>>,
    <<<<"n", "o", "v">>,
      <<"n", "o", "v", "e", "m", "b", "e", "r">>>>,
    <<<<"d", "e", "c">>,
      <<"d", "e", "c", "e", "m", "b", "e", "r">>>>>>

\* the value of the first entry of an ordered table among those at the indexes
\* hits, <<>> when there is none (the for ... break loops over dict.items())
FirstValue(entries, hits) ==
  IF hits = {} THEN <<>> ELSE entries[SetMin(hits)][2]

\* The reference documents on disk: <<partition folder, file name>> pairs of
\* the cleaned-transcript directory.
CleanedTranscriptDir ==
  {<<<<"M", "a", "y", "c", "l", "e", "a", "n", "e", "d">>,
     <<"1", " ", "M", "A", "Y", " ", "P", "R", "I", "M", "E", "_", "n", "o", "n", "_", "b", "o", "l", "d", ".", "o", "d", "t">>>>,
   <<<<"N", "o", "v", "e", "m", "b", "e", "r", "c", "l", "e", "a", "n", "e", "d">>,
     <<"3", " ", " ", "n", "o", "v", " ", " ", "p", "r", "i", "m", "e", "_", "n", "o", "n", "_", "b", "o", "l", "d", ".", "o", "d", "t">>>>}

NoPath == <<>>

\* a resolver that accepts the mapped file under its exact name only
FindExactNameOnly(segment_subfolder, dir) ==
  LET transcript_filename ==
        FirstValue(SEGMENT_TO_TRANSCRIPT_MAP,
                   {i \in 1..Len(SEGMENT_TO_TRANSCRIPT_MAP) :
                      Lower(SEGMENT_TO_TRANSCRIPT_MAP[i][1])
                        = Lower(segment_subfolder[2])})
      month_folder == Lower(segment_subfolder[1])
      by_table ==
        FirstValue(MONTH_FOLDER_MAP,
                   {i \in 1..Len(MONTH_FOLDER_MAP) :
                      Contains(month_folder, MONTH_FOLDER_MAP[i][1])})
      month_name ==
        IF by_table # <<>> THEN by_table
        ELSE FirstValue(month_map,
                        {i \in 1..Len(month_map) :
                           \/ Contains(month_folder, month_map[i][1])
                           \/ Contains(month_folder, month_map[i][2])})
  IN  IF /\ transcript_filename # <<>>
         /\ month_name # <<>>
         /\ <<month_name, transcript_filename>> \in dir
      THEN <<month_name, transcript_filename>>
      ELSE NoPath

\* find_corresponding_full_transcript(segment_subfolder, cleaned_transcript_dir);
\* segment_subfolder is <<parent folder name, leaf folder name>>, the result
\* <<partition folder, file name>> or NoPath (None)
find_corresponding_full_transcript(segment_subfolder, dir) ==
  LET segment_folder_name == segment_subfolder[2]
      transcript_filename ==
        FirstValue(SEGMENT_TO_TRANSCRIPT_MAP,
                   {i \in 1..Len(SEGMENT_TO_TRANSCRIPT_MAP) :
                      Lower(SEGMENT_TO_TRANSCRIPT_MAP[i][1])
                        = Lower(segment_folder_name)})
      month_folder == Lower(segment_subfolder[1])
      by_table ==
        FirstValue(MONTH_FOLDER_MAP,
                   {i \in 1..Len(MONTH_FOLDER_MAP) :
                      Contains(month_folder, MONTH_FOLDER_MAP[i][1])})
      month_name ==
        IF by_table # <<>> THEN by_table
        ELSE FirstValue(month_map,
                        {i \in 1..Len(month_map) :
                           \/ Contains(month_folder, month_map[i][1])
                           \/ Contains(month_folder, month_map[i][2])})
      files == {f \in dir : f[1] = month_name}
      same_case == {f \in files : f[2] = transcript_filename}
      any_case == {f \in files : Lower(f[2]) = Lower(transcript_filename)}
  IN  IF transcript_filename = <<>> THEN NoPath
      ELSE IF month_name = <<>> THEN NoPath
      ELSE IF files = {} THEN NoPath
      ELSE IF same_case # {} THEN <<month_name, transcript_filename>>
      ELSE IF any_case # {} THEN CHOOSE f \in any_case : TRUE
      ELSE NoPath

\* the warning find_corresponding_full_transcript prints before it returns
\* None: the first of its tests that fails; "" when it returns a path
resolver_warning(segment_subfolder, dir) ==
  LET transcript_filename ==
        FirstValue(SEGMENT_TO_TRANSCRIPT_MAP,
                   {i \in 1..Len(SEGMENT_TO_TRANSCRIPT_MAP) :
                      Lower(SEGMENT_TO_TRANSCRIPT_MAP[i][1])
                        = Lower(segment_subfolder[2])})
      month_folder == Lower(segment_subfolder[1])
      by_table ==
        FirstValue(MONTH_FOLDER_MAP,
                   {i \in 1..Len(MONTH_FOLDER_MAP) :
                      Contains(month_folder, MONTH_FOLDER_MAP[i][1])})
      month_name ==
        IF by_table # <<>> THEN by_table
        ELSE FirstValue(month_map,
                        {i \in 1..Len(month_map) :
                           \/ Contains(month_folder, month_map[i][1])
                           \/ Contains(month_folder, month_map[i][2])})
      files == {f \in dir : f[1] = month_name}
  IN  IF transcript_filename = <<>> THEN "No mapping found"
      ELSE IF month_name = <<>> THEN "Could not determine month"
      ELSE IF files = {} THEN "Month folder not found"
      ELSE IF \A f \in files : Lower(f[2]) # Lower(transcript_filename)
      THEN "Transcript file not found"
      ELSE ""

\* load_transcript accepts these suffixes of the lower-cased path
SupportedTypes ==
  {<<".", "t", "x", "t">>, <<".", "d", "o", "c", "x">>, <<".", "o", "d", "t">>}

CanLoad(path) == \E ext \in SupportedTypes : EndsWith(Lower(path[2]), ext)

\* the text of every reference document and of every segment file
DocumentText == <<"x", " ", "y">>

(***************************************************************************)
(* The segment directory: what find_segment_files discovers                *)
(***************************************************************************)

\* number of segment groups on disk
NumGroups == 3

\* the group folders, <<parent folder, leaf folder>>
SegmentFolders ==
  <<<<<<"M", "a", "y">>,
      <<"K", "o", "n", "k", " ", "P", "r", "i", "m", "e", "_", "0", "1", "0", "5", "1", "7">>>>,
    <<<<"M", "a", "y">>,
      <<"K", "o", "n", "k", " ", "E", "x", "t", "r", "a", "_", "0", "2", "0", "5", "1", "7">>>>,
    <<<<"N", "o", "v", "e", "m", "b", "e", "r">>,
      <<"0", "3", " ", "N", "O", "V", " ", "1", "7", "_", "k", "o", "n", "k", " ", "p", "r", "i", "m", "e", " ", "n", "e", "w", "s">>>>,
    <<<<"m", "i", "s", "c">>,
      <<"k", "o", "n", "k", "a", "n", "i", " ", "p", "r", "i", "m", "e", " ", "1", "5", " ", "n", "o", "v", " ", "1", "7">>>>>>

Groups == 1..NumGroups

\* the *.txt files of each group folder
SegmentFileNames ==
  <<<<<<"s", "1", ".", "t", "x", "t">>, <<"s", "2", ".", "t", "x", "t">>>>,
    <<<<"s", "1", ".", "t", "x", "t">>>>,
    <<<<"s", "1", ".", "t", "x", "t">>>>,
    <<<<"s", "1", ".", "t", "x", "t">>>>>>

\* group_segments_by_subfolder(find_segment_files(...)): the groups in order,
\* each with its list of segment files
grouped_segments == [g \in Groups |-> SegmentFileNames[g]]

SegmentText(g, file) == <<"p">>

\* one call of a function on its own
VARIABLES
  given,                 \* what the call is made from and what it finds on disk
  args,                  \* the arguments of the call
  result                 \* <<>> until the call returns, then <<value>>

\* load_transcript(segment_file) succeeding whatever the file
ReadableAlways(g, file) == TRUE

\* load_transcript(segment_file) succeeds: the file is not one of those that
\* cannot be read
SegmentReadable(g, file) ==
  ~(given.kind = "prompt" /\ file \in given.unreadable)

(***************************************************************************)
(* build_strict_matcher_prompt                                             *)
(***************************************************************************)

\* the block the builder appends for one readable segment file
SegmentBlock(g, file) ==
  <<"-", "-", "-", " ">> \o Stem(file) \o <<" ", "-", "-", "-", "\n">>
    \o SegmentText(g, file) \o <<"\n", "\n">>

RECURSIVE SegmentBlocks(_, _)
SegmentBlocks(g, files) ==
  IF files = <<>> THEN <<>>
  ELSE (IF SegmentReadable(g, Head(files))
          THEN <<SegmentBlock(g, Head(files))>> ELSE <<>>)
       \o SegmentBlocks(g, Tail(files))

\* the prompt, kept as its parts: the fixed instructions (ending "Segments:"),
\* one block per segment, the label "Transcript:" and the reference text
build_strict_matcher_prompt(g, segment_files, full_transcript) ==
  [instructions |-> "Return ONLY a CSV: file_name, matched_text",
   blocks |-> SegmentBlocks(g, segment_files),
   label |-> "Transcript:",
   transcript |-> full_transcript \o <<"\n">>]

NoPrompt ==
  [instructions |-> "", blocks |-> <<>>, label |-> "", transcript |-> <<>>]

(***************************************************************************)
(* Progress tracker: count_files.py, get_incomplete_list.py                *)
(***************************************************************************)

\* the status column with the test for equal counts made first
StatusEqualFirst(segment_count, training_count) ==
  IF training_count = segment_count THEN "Complete"
  ELSE IF training_count = 0 THEN "NotProcessed"
  ELSE IF training_count < segment_count THEN "Partial"
  ELSE "ExtraFiles"

\* the status column of count_files.main
Status(segment_count, training_count) ==
  IF training_count = 0 THEN "NotProcessed"
  ELSE IF training_count = segment_count THEN "Complete"
  ELSE IF training_count < segment_count THEN "Partial"
  ELSE "ExtraFiles"

\* the list with every folder whose counts differ taken as partial
IncompleteListUnequal(segment_count, training_count) ==
  IF training_count = 0 THEN "not_processed"
  ELSE IF training_count # segment_count THEN "partial"
  ELSE "none"

\* get_incomplete_list.main: the list a folder is appended to
IncompleteList(segment_count, training_count) ==
  IF training_count = 0 THEN "not_processed"
  ELSE IF training_count < segment_count THEN "partial"
  ELSE "none"

(***************************************************************************)
(* The batch: gemini_automator.main and reprocess_partial.main             *)
(***************************************************************************)

VARIABLES
  training,              \* OUTPUT_DIR: for each group folder, its directory
  script,                \* the script that runs: which main()
  phase,                 \* "none", "first" (first run), "rerun" (run after it)
  folders,               \* the list the loop walks
  processed_count,
  pc,                    \* where the running main() stands
  browser,               \* "none", "launched", "open", "closed"
  ended,                 \* how the try block ended
  full_transcript_path,
  full_transcript,
  prompt,
  response,
  matches,
  old_files,             \* output_folder.glob("*.txt") still to unlink
  next_match,            \* index of the match save_matched_outputs writes next
  saved_count,
  \* history of the run, read by the properties only
  oracle,                \* the first response read for each group
  same,                  \* every later response equalled the first one
  faults,                \* I/O errors raised so far
  start_training,        \* training when the running run started
  first_ended,           \* how the first run ended
  prior,                 \* the current group's directory when its turn began
  written,               \* names written during the current group's turn
  attempted,             \* groups whose turn began in this run
  requested,             \* groups whose prompt was submitted in this run
  failed,                \* groups whose turn ended in a failure in this run
  exit_status,           \* <<>> while running, <<n>> once the process ended
  \* the progress tracker
  segment_counts,        \* count_segment_files()
  training_counts,       \* count_training_files()
  tracker_ran,           \* the tracker scripts that have run
  status_column,         \* count_files.main: status printed per folder
  report_not_processed,  \* count_files.main: the lists of its last section
  report_incomplete,
  not_processed,         \* get_incomplete_list.main: the lists it prints
  partial

batch_vars ==
  <<training, script, phase, folders, processed_count, pc, browser, ended,
    full_transcript_path, full_transcript, prompt, response, matches,
    old_files, next_match, saved_count, oracle, same, faults, start_training,
    first_ended, prior, written, attempted, requested, failed,
    exit_status>>

tracker_vars ==
  <<segment_counts, training_counts, tracker_ran, status_column,
    report_not_processed, report_incomplete, not_processed, partial>>

call_vars == <<given, args, result>>

vars == <<batch_vars, tracker_vars, call_vars>>

\* I/O errors (read, write, unlink, mkdir, browser) the environment may raise
\* in one behaviour
MaxFaults == 1

\* len("D:\Gemini_automator\training")
OutputDirLen == 28

\* len(str(full_output_dir)) for a group
BasePathLen(g) ==
  OutputDirLen + 1 + Len(SegmentFolders[g][1]) + 1 + Len(SegmentFolders[g][2])

\* save_matched_outputs with every write succeeding: the directory of group g
\* after the matches ms are written into dir, in order
RECURSIVE save_matched_outputs(_, _, _)
save_matched_outputs(dir, ms, g) ==
  IF ms = <<>> THEN dir
  ELSE save_matched_outputs(
         WriteFile(dir, SafeFilename(ms[1][1], BasePathLen(g)), ms[1][2]),
         Tail(ms), g)

\* the texts read_gemini_output may return (stripped): nothing, text of
\* neither grammar, header and one row, two blocks, two rows of one name
Responses ==
  {<<>>,
   <<"n", "o", " ", "m", "a", "t", "c", "h">>,
   <<"f", "i", "l", "e", "_", "n", "a", "m", "e", ",", " ", "m", "a", "t", "c", "h", "e", "d", "_", "t", "e", "x", "t", "\n", "s", "2", ",", "x">>,
   <<"-", "-", "-", " ", "s", "1", " ", "-", "-", "-", ",", "x", " ", "-", "-", "-", " ", "s", "2", " ", "-", "-", "-", ",", "y">>,
   <<"s", "1", ",", "x", "\n", "s", "1", ",", "y">>}

\* the increasing sequence of the members of a set of group numbers
RECURSIVE SeqOfSet(_)
SeqOfSet(S) ==
  IF S = {} THEN <<>> ELSE <<SetMin(S)>> \o SeqOfSet(S \ {SetMin(S)})

\* the lists PARTIAL_FOLDERS may be set to
PartialFolderLists == {SeqOfSet(S) : S \in SUBSET Groups}

\* full_transcript_path = find_corresponding_full_transcript(...) for each
\* group folder (the table of the calls main makes)
ResolvedPath ==
  [g \in Groups |->
     find_corresponding_full_transcript(SegmentFolders[g],
                                        CleanedTranscriptDir)]

\* matches = parse_gemini_response(response) for each text of Responses
ParsedResponse == [r \in Responses |-> parse_gemini_response(r)]

\* the group whose turn it is
Current == folders[processed_count]

\* every group's artifacts going to one directory (the subfolder dropped)
SharedOutputDir(g) == 1

\* full_output_dir = Path(output_dir) / segment_subfolder: the directory of
\* training a group's artifacts go to
full_output_dir(g) == g

\* the saving branch taken whatever the parser returned
SaveAlways(m) == TRUE

\* if matches: ... (the branch that saves)
ShouldSave(m) == m # <<>>

\* no old file found (a pattern that matches nothing)
NoOldFiles(dir) == {}

\* for old_file in output_folder.glob("*.txt"): the files reprocess unlinks
OldFiles(dir) == GlobTxt(dir)

\* the exception of a turn reaching the handler around the whole run
AbortOnGroupException == [pc |-> "finally", ended |-> "fatal"]

\* except Exception as e: ... continue  (the handler around a group's turn)
OnGroupException == [pc |-> "loop", ended |-> "running"]

\* the locals of a group's turn before its first step has assigned them
ClearLocals(path) ==
  /\ full_transcript_path' = path
  /\ full_transcript' = <<>>
  /\ prompt' = NoPrompt
  /\ response' = <<>>
  /\ matches' = <<>>
  /\ old_files' = {}
  /\ next_match' = 0
  /\ saved_count' = 0

locals ==
  <<full_transcript_path, full_transcript, prompt, response, matches,
    old_files, next_match, saved_count>>

InitBatch ==
  /\ training = [g \in Groups |-> EmptyDir]
  /\ script = "none"
  /\ phase = "none"
  /\ folders = <<>>
  /\ processed_count = 0
  /\ pc = "idle"
  /\ browser = "none"
  /\ ended = "none"
  /\ full_transcript_path = NoPath
  /\ full_transcript = <<>>
  /\ prompt = NoPrompt
  /\ response = <<>>
  /\ matches = <<>>
  /\ old_files = {}
  /\ next_match = 0
  /\ saved_count = 0
  /\ oracle = [g \in Groups |-> <<>>]
  /\ same = TRUE
  /\ faults = 0
  /\ start_training = [g \in Groups |-> EmptyDir]
  /\ first_ended = "none"
  /\ prior = EmptyDir
  /\ written = {}
  /\ attempted = {}
  /\ requested = {}
  /\ failed = {}
  /\ exit_status = <<>>

InitTrackerIdle ==
  /\ segment_counts = <<>>
  /\ training_counts = <<>>
  /\ tracker_ran = {}
  /\ status_column = <<>>
  /\ report_not_processed = <<>>
  /\ report_incomplete = <<>>
  /\ not_processed = <<>>
  /\ partial = <<>>

\* no function is being called on its own
InitCallIdle ==
  /\ given = [kind |-> "none"]
  /\ args = <<>>
  /\ result = <<>>

Init == InitBatch /\ InitTrackerIdle /\ InitCallIdle

\* python gemini_automator.py on an empty output directory
StartFirstRun ==
  /\ pc = "idle"
  /\ phase = "none"
  /\ phase' = "first"
  /\ script' = "gemini_automator"
  /\ pc' = "start_browser"
  /\ ended' = "running"
  /\ start_training' = training
  /\ UNCHANGED <<training, folders, processed_count, browser, locals, oracle,
                 same, faults, first_ended, prior, written, attempted,
                 requested, failed, tracker_vars, call_vars,
                 exit_status>>

\* a second run after the first one has exited: gemini_automator.py again, or
\* reprocess_partial.py with PARTIAL_FOLDERS set to some list of group folders
StartRerun ==
  /\ pc = "exited"
  /\ phase = "first"
  /\ phase' = "rerun"
  /\ \/ /\ script' = "gemini_automator"
        /\ folders' = <<>>
     \/ /\ script' = "reprocess_partial"
        /\ folders' \in PartialFolderLists
  /\ pc' = "start_browser"
  /\ ended' = "running"
  /\ first_ended' = ended
  /\ browser' = "none"
  /\ processed_count' = 0
  /\ start_training' = training
  /\ attempted' = {}
  /\ requested' = {}
  /\ failed' = {}
  /\ prior' = EmptyDir
  /\ written' = {}
  /\ ClearLocals(NoPath)
  /\ exit_status' = <<>>
  /\ UNCHANGED <<training, oracle, same, faults, tracker_vars, call_vars>>

\* automator.start_browser() returns; gemini_automator then discovers the groups
StartBrowserOk ==
  /\ pc = "start_browser"
  /\ browser' = "open"
  /\ folders' = IF script = "gemini_automator"
                  THEN SeqOfSet(DOMAIN grouped_segments) ELSE folders
  /\ pc' = "loop"
  /\ UNCHANGED <<training, script, phase, processed_count, ended, locals,
                 oracle, same, faults, start_training, first_ended, prior,
                 written, attempted, requested, failed, tracker_vars, call_vars,
                 exit_status>>

\* gemini_automator: the browser started but find_segment_files raises (the
\* segment directory cannot be listed): the outer except Exception
DiscoverFail ==
  /\ pc = "start_browser"
  /\ script = "gemini_automator"
  /\ faults < MaxFaults
  /\ faults' = faults + 1
  /\ browser' = "open"
  /\ pc' = "finally"
  /\ ended' = "fatal"
  /\ UNCHANGED <<training, script, phase, folders, processed_count, locals,
                 oracle, same, start_training, first_ended, prior, written,
                 attempted, requested, failed, exit_status,
                 tracker_vars, call_vars>>

\* automator.start_browser() raises: the outer except Exception. Chrome is
\* not running (it did not start), or subprocess.Popen has launched it and
\* connecting the driver failed: self.driver is still None
StartBrowserFail ==
  /\ pc = "start_browser"
  /\ pc' = "finally"
  /\ ended' = "fatal"
  /\ browser' \in {"none", "launched"}
  /\ UNCHANGED <<training, script, phase, folders, processed_count,
                 locals, oracle, same, faults, start_training, first_ended,
                 prior, written, attempted, requested, failed, tracker_vars, call_vars,
                 exit_status>>

\* the head of the for loop and step 1: the segment files of the folder
\* (reprocess_partial), then find_corresponding_full_transcript
BeginGroup ==
  /\ pc = "loop"
  /\ processed_count < Len(folders)
  /\ LET g == folders[processed_count + 1]
         no_segments == script = "reprocess_partial"
                          /\ (g \notin DOMAIN grouped_segments
                              \/ grouped_segments[g] = <<>>)
         path == ResolvedPath[g]
     IN  /\ processed_count' = processed_count + 1
         /\ attempted' = attempted \cup {g}
         /\ prior' = training[full_output_dir(g)]
         /\ written' = {}
         /\ ClearLocals(path)
         /\ IF no_segments \/ path = NoPath
              THEN /\ pc' = "loop"
                   /\ failed' = failed \cup {g}
              ELSE /\ pc' = "load"
                   /\ failed' = failed
         /\ UNCHANGED <<training, script, phase, folders, browser, ended,
                        oracle, same, faults, start_training, first_ended,
                        requested, tracker_vars, call_vars,
                 exit_status>>

\* the frame of a step of a group's turn that touches neither the output
\* directory nor the run
TurnFrame ==
  UNCHANGED <<training, script, phase, folders, processed_count, browser,
              start_training, first_ended, prior, written, attempted,
              exit_status, tracker_vars, call_vars>>

\* the failure of the load step reaching the handler around the whole run
AbortOnLoadException == [pc |-> "finally", ended |-> "fatal"]

\* step 2, except Exception as e: ... continue
OnLoadException == [pc |-> "loop", ended |-> "running"]

\* the caught failure of the current group's turn
GroupFails(to) ==
  /\ pc' = to.pc
  /\ ended' = to.ended
  /\ failed' = failed \cup {Current}

\* step 2: load_transcript(full_transcript_path) returns the text
LoadOk ==
  /\ pc = "load"
  /\ CanLoad(full_transcript_path)
  /\ full_transcript' = DocumentText
  /\ pc' = "build"
  /\ TurnFrame
  /\ UNCHANGED <<ended, full_transcript_path, prompt, response, matches,
                 old_files, next_match, saved_count, oracle, same, faults,
                 requested, failed>>

\* step 2: load_transcript raises (unsupported type, read error): continue
LoadFail ==
  /\ pc = "load"
  /\ ~CanLoad(full_transcript_path) \/ faults < MaxFaults
  /\ faults' = IF CanLoad(full_transcript_path) THEN faults + 1 ELSE faults
  /\ GroupFails(OnLoadException)
  /\ TurnFrame
  /\ UNCHANGED <<locals, oracle, same, requested>>

\* step 3: build_strict_matcher_prompt
BuildPrompt ==
  /\ pc = "build"
  /\ prompt' = build_strict_matcher_prompt(Current, grouped_segments[Current],
                                           full_transcript)
  /\ pc' = "send"
  /\ TurnFrame
  /\ UNCHANGED <<ended, full_transcript_path, full_transcript, response,
                 matches, old_files, next_match, saved_count, oracle, same,
                 faults, requested, failed>>

\* step 4: send_prompt_to_gemini submits the prompt
SendOk ==
  /\ pc = "send"
  /\ requested' = requested \cup {Current}
  /\ pc' = "wait"
  /\ TurnFrame
  /\ UNCHANGED <<ended, locals, oracle, same, faults, failed>>

\* step 4: send_prompt_to_gemini raises: the handler of the turn
SendFail ==
  /\ pc = "send"
  /\ faults < MaxFaults
  /\ faults' = faults + 1
  /\ GroupFails(OnGroupException)
  /\ TurnFrame
  /\ UNCHANGED <<locals, oracle, same, requested>>

\* the positions before step 6: the oracle has finished its answer ("read"),
\* or is still producing it ("read_early")
ReadPcs == {"read", "read_early"}

\* step 5: wait_for_response_complete returns when its 20 seconds are over,
\* whether the oracle has finished or not
WaitForResponse ==
  /\ pc = "wait"
  /\ pc' \in ReadPcs
  /\ TurnFrame
  /\ UNCHANGED <<ended, locals, oracle, same, faults, requested, failed>>

\* the step that follows reading with every branch leading back to sending
AfterReadRetry(r) == IF r = <<>> THEN "send" ELSE "parse"

\* if not response: ... continue  (an empty response ends the turn)
AfterRead(r) == IF r = <<>> THEN "loop" ELSE "parse"

\* step 6: read_gemini_output; an empty response skips the group
ReadResponse ==
  /\ pc \in ReadPcs
  /\ \E r \in Responses :
       /\ response' = r
       /\ oracle' = IF oracle[Current] = <<>>
                      THEN [oracle EXCEPT ![Current] = <<r>>] ELSE oracle
       /\ same' = (same /\ (oracle[Current] = <<>> \/ oracle[Current] = <<r>>))
       /\ pc' = AfterRead(r)
  /\ TurnFrame
  /\ UNCHANGED <<ended, full_transcript_path, full_transcript, prompt, matches,
                 old_files, next_match, saved_count, faults, requested, failed>>

\* step 7: parse_gemini_response, and the test  if matches:
ParseResponse ==
  /\ pc = "parse"
  /\ matches' = ParsedResponse[response]
  /\ IF ShouldSave(matches')
       THEN IF script = "reprocess_partial"
              THEN /\ pc' = "delete"
                   /\ old_files' = OldFiles(training[full_output_dir(Current)])
              ELSE /\ pc' = "mkdir"
                   /\ old_files' = {}
       ELSE /\ pc' = "newchat"
            /\ old_files' = {}
  /\ TurnFrame
  /\ UNCHANGED <<ended, full_transcript_path, full_transcript, prompt, response,
                 next_match, saved_count, oracle, same, faults, requested,
                 failed>>

\* reprocess_partial: old_file.unlink() for one of the old files
DeleteOld ==
  /\ pc = "delete"
  /\ \E n \in old_files :
       /\ training' = [training EXCEPT ![full_output_dir(Current)] = Unlink(@, n)]
       /\ old_files' = old_files \ {n}
  /\ UNCHANGED <<script, phase, folders, processed_count, pc, browser, ended,
                 full_transcript_path, full_transcript, prompt, response,
                 matches, next_match, saved_count, oracle, same, faults,
                 start_training, first_ended, prior, written, attempted,
                 requested, failed, tracker_vars, call_vars,
                 exit_status>>

\* reprocess_partial: old_file.unlink() raises: the handler of the turn
DeleteFail ==
  /\ pc = "delete"
  /\ old_files # {}
  /\ faults < MaxFaults
  /\ faults' = faults + 1
  /\ GroupFails(OnGroupException)
  /\ TurnFrame
  /\ UNCHANGED <<locals, oracle, same, requested>>

\* reprocess_partial: every old file is unlinked
DeleteDone ==
  /\ pc = "delete"
  /\ old_files = {}
  /\ pc' = "mkdir"
  /\ TurnFrame
  /\ UNCHANGED <<ended, locals, oracle, same, faults, requested, failed>>

\* save_matched_outputs: full_output_dir.mkdir(parents=True, exist_ok=True)
MkdirOk ==
  /\ pc = "mkdir"
  /\ pc' = "write"
  /\ next_match' = 1
  /\ saved_count' = 0
  /\ TurnFrame
  /\ UNCHANGED <<ended, full_transcript_path, full_transcript, prompt, response,
                 matches, old_files, oracle, same, faults, requested, failed>>

\* save_matched_outputs: mkdir raises: the handler of the turn
MkdirFail ==
  /\ pc = "mkdir"
  /\ faults < MaxFaults
  /\ faults' = faults + 1
  /\ GroupFails(OnGroupException)
  /\ TurnFrame
  /\ UNCHANGED <<locals, oracle, same, requested>>

\* save_matched_outputs: one match is written under its safe file name
WriteOk ==
  /\ pc = "write"
  /\ next_match <= Len(matches)
  /\ LET name == SafeFilename(matches[next_match][1], BasePathLen(Current))
     IN  /\ training' = [training EXCEPT ![full_output_dir(Current)] =
                           WriteFile(@, name, matches[next_match][2])]
         /\ written' = written \cup {name}
  /\ saved_count' = saved_count + 1
  /\ next_match' = next_match + 1
  /\ UNCHANGED <<script, phase, folders, processed_count, pc, browser, ended,
                 full_transcript_path, full_transcript, prompt, response,
                 matches, old_files, oracle, same, faults, start_training,
                 first_ended, prior, attempted, requested, failed,
                 tracker_vars, call_vars,
                 exit_status>>

\* save_matched_outputs: open() raises (nothing is created), or the write
\* raises after open(path, 'w') has created or emptied the file; either way
\* the file is skipped and not counted
WriteFail ==
  /\ pc = "write"
  /\ next_match <= Len(matches)
  /\ faults < MaxFaults
  /\ faults' = faults + 1
  /\ next_match' = next_match + 1
  /\ LET name == SafeFilename(matches[next_match][1], BasePathLen(Current))
     IN  \/ UNCHANGED <<training, written>>
         \/ /\ training' = [training EXCEPT ![full_output_dir(Current)] =
                              WriteFile(@, name, <<>>)]
            /\ written' = written \cup {name}
  /\ UNCHANGED <<script, phase, folders, processed_count, pc, browser, ended,
                 full_transcript_path, full_transcript, prompt, response,
                 matches, old_files, saved_count, oracle, same, start_training,
                 first_ended, prior, attempted, requested, failed,
                 tracker_vars, call_vars,
                 exit_status>>

\* save_matched_outputs returns saved_count
SaveReturn ==
  /\ pc = "write"
  /\ next_match > Len(matches)
  /\ pc' = "newchat"
  /\ TurnFrame
  /\ UNCHANGED <<ended, locals, oracle, same, faults, requested, failed>>

\* steps 8/9: a new chat is started (or the input cleared; an error here is
\* caught as well) and the loop goes on
NewChat ==
  /\ pc = "newchat"
  /\ pc' = "loop"
  /\ TurnFrame
  /\ UNCHANGED <<ended, locals, oracle, same, faults, requested, failed>>

\* control leaves the for loop: the locals of the last turn are dead
LeaveLoop ==
  /\ pc' = "finally"
  /\ ClearLocals(NoPath)
  /\ prior' = EmptyDir
  /\ written' = {}
  /\ UNCHANGED <<script, phase, folders, processed_count, browser, oracle,
                 same, faults, start_training, first_ended, attempted,
                 requested, failed, exit_status, tracker_vars, call_vars>>

\* the for loop is exhausted
LoopEnd ==
  /\ pc = "loop"
  /\ processed_count = Len(folders)
  /\ ended' = "complete"
  /\ LeaveLoop
  /\ UNCHANGED training

TryPcs ==
  {"start_browser", "loop", "load", "build", "send", "wait", "read", "read_early",
   "parse",
   "delete", "mkdir", "write", "newchat"}

\* KeyboardInterrupt anywhere inside the try block
Interrupt ==
  /\ pc \in TryPcs
  /\ ended' = "interrupted"
  /\ LeaveLoop
  /\ UNCHANGED training

\* KeyboardInterrupt inside start_browser after Chrome has been launched
\* (its waits of 8 and 15 seconds): self.driver may still be None
InterruptAfterLaunch ==
  /\ pc = "start_browser"
  /\ pc' = "finally"
  /\ ended' = "interrupted"
  /\ browser' = "launched"
  /\ UNCHANGED <<training, script, phase, folders, processed_count,
                 locals, oracle, same, faults, start_training, first_ended,
                 prior, written, attempted, requested, failed, tracker_vars,
                 call_vars, exit_status>>

\* KeyboardInterrupt inside  with open(output_path, 'w'): the file is left
\* created or emptied, its text not written
InterruptInWrite ==
  /\ pc = "write"
  /\ next_match <= Len(matches)
  /\ LET name == SafeFilename(matches[next_match][1], BasePathLen(Current))
     IN  training' = [training EXCEPT ![full_output_dir(Current)] =
                        WriteFile(@, name, <<>>)]
  /\ ended' = "interrupted"
  /\ LeaveLoop

\* the oracle finishes the answer it is producing (a step of the environment)
OracleCompletes ==
  /\ pc = "read_early"
  /\ pc' = "read"
  /\ UNCHANGED <<training, script, phase, folders, processed_count,
                 browser, ended, locals, oracle, same, faults, start_training,
                 first_ended, prior, written, attempted, requested, failed,
                 exit_status, tracker_vars, call_vars>>

\* the status the interpreter ends with when main() returns
ExitAfterReturn == 0

\* the status the interpreter ends with when an exception leaves main()
ExitAfterException == 1

\* finally: automator.close() returns, main() returns and the script ends
CloseBrowser ==
  /\ pc = "finally"
  /\ browser' = IF browser = "open" THEN "closed" ELSE browser
  /\ pc' = "exited"
  /\ exit_status' = <<ExitAfterReturn>>
  /\ UNCHANGED <<training, script, phase, folders, processed_count, ended,
                 locals, oracle, same, faults, start_training, first_ended,
                 prior, written, attempted, requested, failed, tracker_vars, call_vars>>

\* finally: self.driver.quit() raises; the exception leaves main()
CloseFail ==
  /\ pc = "finally"
  /\ browser = "open"
  /\ faults < MaxFaults
  /\ faults' = faults + 1
  /\ pc' = "exited"
  /\ exit_status' = <<ExitAfterException>>
  /\ UNCHANGED <<training, script, phase, folders, processed_count, browser,
                 ended, locals, oracle, same, start_training,
                 first_ended,
                 prior, written, attempted, requested, failed, tracker_vars, call_vars>>

Next ==
  \/ StartFirstRun
  \/ StartRerun
  \/ StartBrowserOk
  \/ StartBrowserFail
  \/ InterruptAfterLaunch
  \/ DiscoverFail
  \/ BeginGroup
  \/ LoadOk
  \/ LoadFail
  \/ BuildPrompt
  \/ SendOk
  \/ SendFail
  \/ WaitForResponse
  \/ ReadResponse
  \/ ParseResponse
  \/ DeleteOld
  \/ DeleteFail
  \/ DeleteDone
  \/ MkdirOk
  \/ MkdirFail
  \/ WriteOk
  \/ WriteFail
  \/ SaveReturn
  \/ NewChat
  \/ LoopEnd
  \/ Interrupt
  \/ InterruptInWrite
  \/ OracleCompletes
  \/ CloseBrowser
  \/ CloseFail

Spec == Init /\ [][Next]_vars

(***************************************************************************)
(* The progress tracker as a state machine: the two count dictionaries are *)
(* what count_segment_files() and count_training_files() returned, keyed   *)
(* by group folder; a folder with no directory on one side has no key      *)
(* there and reads as 0 through .get(subfolder, 0).                        *)
(***************************************************************************)

\* group folders the tracker may find
NumTrackerFolders == 2

\* most *.txt files in one folder
MaxCount == 2

TrackerFolders == 1..NumTrackerFolders

CountDicts == UNION {[S -> 0..MaxCount] : S \in SUBSET TrackerFolders}

\* counts.get(month, {}).get(subfolder, 0)
GetCount(counts, k) == IF k \in DOMAIN counts THEN counts[k] ELSE 0

InitTracker ==
  /\ InitBatch
  /\ InitCallIdle
  /\ segment_counts \in CountDicts
  /\ training_counts \in CountDicts
  /\ tracker_ran = {}
  /\ status_column = <<>>
  /\ report_not_processed = <<>>
  /\ report_incomplete = <<>>
  /\ not_processed = <<>>
  /\ partial = <<>>

\* the folders of segment_counts, in sorted order, that IncompleteList puts
\* on the list named which
ListOf(which) ==
  SeqOfSet({k \in DOMAIN segment_counts :
              IncompleteList(GetCount(segment_counts, k),
                             GetCount(training_counts, k)) = which})

\* count_files.main: the status column over the folders of either side, then
\* the lists of not processed and partially processed folders
CountFilesMain ==
  /\ "count_files" \notin tracker_ran
  /\ tracker_ran' = tracker_ran \cup {"count_files"}
  /\ status_column' =
       [k \in (DOMAIN training_counts) \cup (DOMAIN segment_counts) |->
          Status(GetCount(segment_counts, k), GetCount(training_counts, k))]
  /\ report_not_processed' = ListOf("not_processed")
  /\ report_incomplete' = ListOf("partial")
  /\ UNCHANGED <<batch_vars, call_vars, segment_counts, training_counts, not_processed,
                 partial>>

\* get_incomplete_list.main
GetIncompleteListMain ==
  /\ "get_incomplete_list" \notin tracker_ran
  /\ tracker_ran' = tracker_ran \cup {"get_incomplete_list"}
  /\ not_processed' = ListOf("not_processed")
  /\ partial' = ListOf("partial")
  /\ UNCHANGED <<batch_vars, call_vars, segment_counts, training_counts, status_column,
                 report_not_processed, report_incomplete>>

NextTracker == CountFilesMain \/ GetIncompleteListMain

SpecTracker == InitTracker /\ [][NextTracker]_vars

(***************************************************************************)
(* Properties of the batch                                                 *)
(***************************************************************************)

\* number of artifacts in a directory (count_training_files)
CountArtifacts(dir) == Cardinality(GlobTxt(dir))

\* the status of group g when its output directory is dir
GroupStatus(g, dir) == Status(Len(grouped_segments[g]), CountArtifacts(dir))

\* the groups whose status over the directories t is not Complete
WorkSet(t) == {g \in Groups : GroupStatus(g, t[g]) # "Complete"}

\* what one uninterrupted run of gemini_automator.main over empty output
\* directories leaves for group g when the oracle answers as in oracle
Uninterrupted(g) ==
  LET path == ResolvedPath[g]
  IN  IF path = NoPath \/ ~CanLoad(path) \/ oracle[g] = <<>>
        THEN EmptyDir
        ELSE save_matched_outputs(EmptyDir, ParsedResponse[oracle[g][1]], g)

\* C1: a first run that was interrupted, followed by a complete and fault-free
\* re-run over the work set (the groups whose status is not Complete) with the
\* oracle answering each group as before, leaves in every group's directory
\* the artifacts, names and texts, of one uninterrupted run.
C1_Resumable ==
  (/\ phase = "rerun"
   /\ pc = "exited"
   /\ ended = "complete"
   /\ first_ended = "interrupted"
   /\ script = "reprocess_partial"
   /\ folders = SeqOfSet(WorkSet(start_training))
   /\ same
   /\ faults = 0)
  => \A g \in Groups : training[g] = Uninterrupted(g)

\* C2: on a second run no request is submitted and no artifact is written or
\* deleted for a group that was Complete when the run started.
C2_CompleteUntouched ==
  phase = "rerun" =>
    \A g \in Groups :
      GroupStatus(g, start_training[g]) = "Complete" =>
        /\ g \notin requested
        /\ training[g] = start_training[g]

(***************************************************************************)
(* Properties of the progress tracker                                      *)
(***************************************************************************)

\* the members of a list
Members(list) == {list[i] : i \in 1..Len(list)}

\* the derived status of folder k
StatusOf(k) ==
  Status(GetCount(segment_counts, k), GetCount(training_counts, k))

\* the discovered groups: the folders that hold segments
Discovered == DOMAIN segment_counts

\* C3 (as amended): the folders get_incomplete_list.main and the last section
\* of count_files.main list for reprocessing are exactly the discovered groups
\* whose status is Not processed or Partial: no Complete group and no group
\* with extra files is listed.
C3_WorkSetIsNotStartedOrPartial ==
  LET expected == {k \in Discovered : StatusOf(k) \in {"NotProcessed", "Partial"}}
  IN  /\ "get_incomplete_list" \in tracker_ran =>
           /\ Members(not_processed) \cup Members(partial) = expected
           /\ Members(not_processed) =
                {k \in Discovered : StatusOf(k) = "NotProcessed"}
      /\ "count_files" \in tracker_ran =>
           /\ Members(report_not_processed) \cup Members(report_incomplete)
                = expected
           /\ Members(report_incomplete) =
                {k \in Discovered : StatusOf(k) = "Partial"}

\* C3 witness: the list was made with one Partial group on it, one Complete
\* group off it and nothing else.
C3_Witness ==
  /\ "get_incomplete_list" \in tracker_ran
  /\ Discovered = {1, 2}
  /\ StatusOf(1) = "Partial"
  /\ StatusOf(2) = "Complete"
  /\ partial = <<1>>
  /\ not_processed = <<>>

\* C3 as stated: the listed folders are exactly the discovered groups whose
\* status is not Complete (Not processed, Partial and Extra files).
C3_WorkSetIsNotComplete ==
  "get_incomplete_list" \in tracker_ran =>
    Members(not_processed) \cup Members(partial) =
      {k \in Discovered : StatusOf(k) # "Complete"}

\* C4 (as amended): for every folder with segment count e and artifact count
\* c, the status column is Not processed when c = 0, Partial when 0 < c < e,
\* Complete when c = e and c > 0, Extra files when c > e.
C4_StatusDerivation ==
  "count_files" \in tracker_ran =>
    \A k \in DOMAIN status_column :
      LET e == GetCount(segment_counts, k)
          c == GetCount(training_counts, k)
      IN  /\ c = 0 => status_column[k] = "NotProcessed"
          /\ (0 < c /\ c < e) => status_column[k] = "Partial"
          /\ (c = e /\ c > 0) => status_column[k] = "Complete"
          /\ c > e => status_column[k] = "ExtraFiles"

\* C4 witness: the status column was printed for a folder with no segment and
\* no artifact (0 of 0) and for a folder with as many artifacts as segments.
C4_Witness ==
  /\ "count_files" \in tracker_ran
  /\ DOMAIN status_column = {1, 2}
  /\ GetCount(segment_counts, 1) = 0 /\ GetCount(training_counts, 1) = 0
  /\ status_column[1] = "NotProcessed"
  /\ GetCount(segment_counts, 2) = MaxCount
  /\ GetCount(training_counts, 2) = MaxCount
  /\ status_column[2] = "Complete"

\* C4 as stated: Not processed when c = 0, Partial when 0 < c < e, Complete
\* when c = e, Extra files when c > e, for all non-negative counts.
C4_StatusAsStated ==
  "count_files" \in tracker_ran =>
    \A k \in DOMAIN status_column :
      LET e == GetCount(segment_counts, k)
          c == GetCount(training_counts, k)
      IN  /\ c = 0 => status_column[k] = "NotProcessed"
          /\ (0 < c /\ c < e) => status_column[k] = "Partial"
          /\ c = e => status_column[k] = "Complete"
          /\ c > e => status_column[k] = "ExtraFiles"

(***************************************************************************)
(* Properties of a group's turn                                            *)
(***************************************************************************)

\* a turn is at or past the write step
InTurn == processed_count > 0 /\ pc \in {"delete", "mkdir", "write", "newchat"}

\* the output directory of the current group
CurrentDir == training[full_output_dir(Current)]

\* C5: after the write step of a group's turn, whatever the oracle returned,
\* the group's output directory holds at most as many artifacts as the group
\* has segments.
C5_ArtifactsAtMostSegments ==
  (InTurn /\ pc = "newchat") =>
    CountArtifacts(CurrentDir) <= Len(grouped_segments[Current])

\* the current group was flagged Partial and is being reprocessed
ReprocessingPartial ==
  /\ script = "reprocess_partial"
  /\ InTurn
  /\ GroupStatus(Current, prior) = "Partial"

\* C6 (as amended): when reprocess_partial reprocesses a Partial group and the
\* new response yields at least one match, every artifact the group held
\* before is deleted before the first new artifact is written (the directory
\* is empty when the write step begins and holds only files of this turn from
\* then on), and when every write has succeeded the directory is exactly the
\* new match set.
C6_PriorDeletedBeforeWrite ==
  (ReprocessingPartial /\ matches # <<>>) =>
    /\ pc = "mkdir" => CurrentDir = EmptyDir
    /\ pc \in {"write", "newchat"} => DOMAIN CurrentDir = written
    /\ (pc = "newchat" /\ saved_count = Len(matches)) =>
         CurrentDir = save_matched_outputs(EmptyDir, matches, Current)

\* C6 witness: a Partial group (s2.txt alone, of 2 segments) was reprocessed
\* with a response naming s1 only; s2.txt is gone and s1.txt is there.
C6_Witness ==
  /\ ReprocessingPartial
  /\ pc = "newchat"
  /\ matches # <<>>
  /\ saved_count = Len(matches)
  /\ DOMAIN prior = {<<"s", "2", ".", "t", "x", "t">>}
  /\ DOMAIN CurrentDir = {<<"s", "1", ".", "t", "x", "t">>}

\* C6 as stated: after a Partial group is reprocessed (no I/O error), its
\* directory is exactly the new match set, whatever that set is.
C6_ExactlyNewMatchSet ==
  (ReprocessingPartial /\ pc = "newchat" /\ faults = 0) =>
    CurrentDir = save_matched_outputs(EmptyDir, matches, Current)

\* C7: at every point of a turn's write or rewrite step the directory holds
\* only artifacts of the prior result set or only artifacts of the new one.
C7_NeverMixed ==
  InTurn =>
    ~(/\ \E n \in DOMAIN CurrentDir : n \in written
      /\ \E n \in DOMAIN CurrentDir : n \notin written)

\* C8: a run that started up and was not interrupted has attempted every
\* group of its list, those after a failed group included.
C8_LaterGroupsAttempted ==
  (pc = "exited" /\ browser # "none" /\ ended # "interrupted") =>
    \A i \in 1..Len(folders) :
      \A j \in (i + 1)..Len(folders) :
        folders[i] \in failed => folders[j] \in attempted

\* C8 witness: the run is over, group 2 (no entry in the correspondence
\* table) failed and the later group 3 was sent to the oracle.
C8_Witness ==
  /\ pc = "exited"
  /\ ended = "complete"
  /\ folders = <<1, 2, 3>>
  /\ 2 \in failed
  /\ 3 \in requested

\* C9: a step changes the artifacts of a group (training[g], the directory
\* named after the group's folder) only in that group's own turn
\* (the segments, and with them every expected count, never change).
C9_OtherGroupsUnchanged ==
  [][\A g \in Groups :
       training'[g] # training[g] => (InTurn /\ Current = g)]_vars

\* C9 witness: group 3 has been written in its turn while group 1 holds its
\* artifacts of the same run.
C9_Witness ==
  /\ InTurn
  /\ Current = 3
  /\ written # {}
  /\ training[1] # EmptyDir
  /\ training[3] # EmptyDir

\* C10: when the response of a group yields no match, the group's directory
\* is as before the turn (and so is its status), the turn has not failed,
\* and the run goes on to the next group.
C10_ZeroMatchesNoChange ==
  (InTurn /\ response # <<>> /\ matches = <<>>) =>
    /\ pc = "newchat"
    /\ CurrentDir = prior
    /\ GroupStatus(Current, CurrentDir) = GroupStatus(Current, prior)
    /\ Current \notin failed
    /\ ended = "running"

\* C10 witness: reprocessing a group that holds artifacts got a response of
\* neither grammar.
C10_Witness ==
  /\ InTurn
  /\ pc = "newchat"
  /\ script = "reprocess_partial"
  /\ response # <<>>
  /\ matches = <<>>
  /\ prior # EmptyDir

\* C11: when the read step of a group's turn yields an empty response, the
\* run goes straight back to the head of the loop with nothing parsed, no
\* file of training written or deleted, the group not marked failed and the
\* run still running; and no group is sent to the oracle twice in one run.
C11_EmptyResponseSkips ==
  [][/\ (pc \in ReadPcs /\ response' = <<>> /\ pc' \notin ReadPcs \cup {"finally"}) =>
          /\ pc' = "loop"
          /\ training' = training
          /\ matches' = <<>>
          /\ old_files' = {}
          /\ requested' = requested
          /\ failed' = failed
          /\ processed_count' = processed_count
          /\ ended' = "running"
     /\ (pc = "send" /\ pc' = "wait") => Current \notin requested]_vars

\* C11 witness: reprocessing a group that holds artifacts, the request went
\* out, the response read was empty and the loop is at its head again with
\* the directory as it was.
C11_Witness ==
  /\ pc = "loop"
  /\ processed_count > 0
  /\ Current \in requested
  /\ Current \notin failed
  /\ response = <<>>
  /\ script = "reprocess_partial"
  /\ prior # EmptyDir
  /\ CurrentDir = prior

\* C12: the steps of a turn follow one another and the wait step ends only
\* when the oracle has completed: the response of a group is read, and then
\* parsed, only when the oracle has finished the answer to the request.
C12_WaitsForCompletion ==
  [][(pc \in ReadPcs /\ pc' \in {"parse", "loop"}) => pc = "read"]_vars

\* the groups a run is to process: every discovered group (gemini_automator)
\* or the folders of PARTIAL_FOLDERS (reprocess_partial)
WorkList ==
  IF script = "gemini_automator"
    THEN SeqOfSet(DOMAIN grouped_segments) ELSE folders

\* some group of the work list has not been attempted
EndedEarly ==
  /\ pc = "exited"
  /\ \E i \in DOMAIN WorkList : WorkList[i] \notin attempted

\* C13 (as amended): a run that ended before having attempted every group of
\* its work list was interrupted by the user or failed at start-up, before
\* the turn of any group (the browser did not start, or the segment directory
\* could not be listed); no failure in a group's turn ends the run early.
C13_EarlyEndOnlyAtStartupOrInterrupt ==
  EndedEarly =>
    \/ ended = "interrupted"
    \/ /\ ended = "fatal"
       /\ processed_count = 0
       /\ attempted = {}
       /\ failed = {}

\* C13 witness: the browser started, listing the segment directory failed and
\* the run is over with no group attempted.
C13_Witness ==
  /\ EndedEarly
  /\ ended = "fatal"
  /\ browser \in {"open", "closed"}
  /\ faults > 0

\* C13 as stated: a run that was not interrupted ends before having attempted
\* every group only if the oracle was unreachable at start-up.
C13_EarlyEndOnlyIfOracleUnreachable ==
  (EndedEarly /\ ended # "interrupted") => browser \in {"none", "launched"}

\* C14: a run whose browser could not be started (the oracle is unreachable at
\* initialization) ends without having attempted any group, and the process
\* ends with an exit status other than zero.
C14_FatalStartupNonZeroExit ==
  (pc = "exited" /\ ended = "fatal" /\ browser = "none") =>
    /\ attempted = {}
    /\ requested = {}
    /\ exit_status # <<>>
    /\ exit_status[1] # 0

(***************************************************************************)
(* Calls of parse_gemini_response on responses of every shape              *)
(***************************************************************************)

\* the most blocks, and the most lines, of a response
MaxBlocks == 2

MaxLines == 2

\* the sequences of 1 to n members of S, and those of 0 to n
SeqsOf(S, n) == UNION {[1..k -> S] : k \in 1..n}

SeqsUpTo(S, n) == {<<>>} \cup SeqsOf(S, n)

\* "".join of the parts with sep between them
RECURSIVE Join(_, _)
Join(parts, sep) ==
  IF parts = <<>> THEN <<>>
  ELSE IF Len(parts) = 1 THEN parts[1]
  ELSE parts[1] \o sep \o Join(Tail(parts), sep)

\* the header row the request asks for, as a line of its own
HeaderRow == FileNameToken \o <<",", " ">> \o MatchedTextToken

\* ids of blocks: the stems of segment files
BlockIds == {<<"s", "1">>, <<"s", "2">>}

\* texts of blocks: one word, with a comma, with a dash, over two lines
BlockTexts == {<<"x">>, <<"a", ",", "b">>, <<"a", "-", "b">>, <<"a", "\n", "b">>}

\* what may stand before the first block: nothing, the header row, a preface
Prefaces == {<<>>, HeaderRow \o <<"\n">>, <<"o", "k", " ">>}

\* what stands between two blocks
BlockSeps == {<<" ">>, <<"\n">>}

\* one block  --- <id> ---,<text>  of the block grammar
RenderBlock(b) ==
  <<"-", "-", "-", " ">> \o b[1] \o <<" ", "-", "-", "-", ",">> \o b[2]

\* the well-formed responses of the block grammar
BlockResponses ==
  {[kind |-> "blocks", preface |-> p, sep |-> sp, blocks |-> bs] :
     p \in Prefaces, sp \in BlockSeps,
     bs \in SeqsOf(BlockIds \X BlockTexts, MaxBlocks)}

\* lines a response without block markers may hold: rows, a row with spaces
\* around its fields, a line without a comma, a row without id, a row
\* without text, the header row, a row whose text names file_name, a blank
\* line
LineCandidates ==
  {[id |-> <<"s", "1">>, sep |-> <<",">>, text |-> <<"x">>],
   [id |-> <<"s", "2">>, sep |-> <<",">>, text |-> <<"a", ",", "b">>],
   [id |-> <<" ", "s", "1", " ">>, sep |-> <<",">>, text |-> <<" ", "x", " ">>],
   [id |-> <<"h", "e", "l", "l", "o">>, sep |-> <<>>, text |-> <<>>],
   [id |-> <<>>, sep |-> <<",">>, text |-> <<"x">>],
   [id |-> <<"s", "1">>, sep |-> <<",">>, text |-> <<>>],
   [id |-> FileNameToken, sep |-> <<",">>, text |-> <<" ">> \o MatchedTextToken],
   [id |-> <<"s", "1">>, sep |-> <<",">>, text |-> <<"s", "e", "e", " ">> \o FileNameToken],
   [id |-> <<>>, sep |-> <<>>, text |-> <<>>]}

RenderLine(c) == c.id \o c.sep \o c.text

\* the responses made of such lines
LineResponses ==
  {[kind |-> "lines", lines |-> ls] : ls \in SeqsUpTo(LineCandidates, MaxLines)}

\* texts with a marker that is no block, or a marker cut short
JunkResponses ==
  {[kind |-> "junk", text |-> t] : t \in {<<"-", "-", "-", " ", "s", "1", " ", "-", "-", "-">>, <<"-", "-", "-", " ", "s", "1", " ", "-", "-", "-", ",">>, <<"-", "-", "-">>}}

\* texts of rows: one word, with a comma, naming file_name
RowTexts == {<<"x">>, <<"a", ",", "b">>, <<"s", "e", "e", " ">> \o FileNameToken}

\* the rows  <segment_id>,<matched_text>  for the segment files of group g
\* picked by the indices I, in the order of the request, with the texts t
Rows(g, I, t) ==
  LET picked == SeqOfSet(I)
  IN  [k \in 1..Len(picked) |->
         <<Stem(grouped_segments[g][picked[k]]), t[picked[k]]>>]

\* the responses the request asks for: the header row, then one row for each
\* of some of the segments of the request
RowResponses ==
  UNION {UNION {{[kind |-> "rows", group |-> g, rows |-> Rows(g, I, t)] :
                   t \in [I -> RowTexts]} :
                I \in SUBSET (1..Len(grouped_segments[g]))} :
         g \in Groups}

\* the response text of each of these
ResponseText(g) ==
  CASE g.kind = "blocks" ->
         g.preface \o Join([i \in 1..Len(g.blocks) |-> RenderBlock(g.blocks[i])],
                           g.sep)
    [] g.kind = "lines" ->
         Join([i \in 1..Len(g.lines) |-> RenderLine(g.lines[i])], <<"\n">>)
    [] g.kind = "junk" -> g.text
    [] g.kind = "rows" ->
         HeaderRow \o <<"\n">>
           \o Join([i \in 1..Len(g.rows) |->
                      g.rows[i][1] \o <<",">> \o g.rows[i][2]], <<"\n">>)
    [] g.kind = "mixed" ->
         Join(g.before \o <<RenderBlock(g.block)>> \o g.after, <<"\n">>)

\* rows  <id>,<text>  that stand on lines of their own around a block
MixedLines == {<<"s", "8", ",", "y">>, <<"s", "9", ",", "a", ",", "b">>}

\* responses with one block on a line of its own and rows on the lines
\* before and after it
MixedResponses ==
  {[kind |-> "mixed", before |-> b, block |-> bl, after |-> a] :
     b \in SeqsUpTo(MixedLines, MaxLines), a \in SeqsUpTo(MixedLines, 1),
     bl \in BlockIds \X {<<"x">>, <<"a", ",", "b">>}}

\* a call of parse_gemini_response(response_text) about to be made
InitParser ==
  /\ InitBatch
  /\ InitTrackerIdle
  /\ given \in BlockResponses \cup LineResponses \cup JunkResponses
                 \cup RowResponses \cup MixedResponses
  /\ args = <<ResponseText(given)>>
  /\ result = <<>>

\* the call returns the list of matches
CallParser ==
  /\ given.kind \in {"blocks", "lines", "junk", "rows", "mixed"}
  /\ result = <<>>
  /\ result' = <<parse_gemini_response(args[1])>>
  /\ UNCHANGED <<given, args, batch_vars, tracker_vars>>

NextParser == CallParser

SpecParser == InitParser /\ [][NextParser]_vars

\* the call made from a thing of this kind has returned
Parsed(kind) == given.kind = kind /\ result # <<>>

\* C15: the parser returns, for a well-formed response of the block grammar
\* (a preface or header row or nothing, then N blocks  --- <id> ---,<text>
\* whose texts may hold commas, dashes and line ends), exactly the N pairs
\* (id, text) of the blocks, in their order.
C15_BlocksInOrder ==
  Parsed("blocks") => result[1] = given.blocks

\* the line is the header row  file_name, matched_text
IsHeaderRow(c) ==
  /\ Lower(Strip(c.id)) = FileNameToken
  /\ Lower(Strip(c.text)) = MatchedTextToken

\* a valid  id,text  line: a separating comma, an id that is not empty and
\* within the length bound, a text that is not empty, not the header row
ValidLine(c) ==
  /\ c.sep = <<",">>
  /\ Strip(c.id) # <<>>
  /\ Len(Strip(c.id)) < MaxFileNameLen
  /\ Strip(c.text) # <<>>
  /\ ~IsHeaderRow(c)

\* C16: for a response without block markers the parser returns one pair for
\* each valid  id,text  line, in line order, and nothing for the header row
\* and the other lines: no valid line is dropped.
C16_ValidLinesInOrder ==
  Parsed("lines") =>
    LET valid == SelectSeq(given.lines, ValidLine)
    IN  result[1] =
          [i \in 1..Len(valid) |-> <<Strip(valid[i].id), Strip(valid[i].text)>>]

\* C17: for the empty input, for lines none of which is a valid  id,text
\* line, and for a marker that opens no block, the parser returns the empty
\* list.
C17_NeitherGrammarEmpty ==
  (\/ Parsed("junk")
   \/ Parsed("lines") /\ \A i \in DOMAIN given.lines : ~ValidLine(given.lines[i]))
    => result[1] = <<>>

\* C17 witness: two lines, a row without text and a line without comma, have
\* been parsed.
C17_Witness ==
  /\ Parsed("lines")
  /\ Len(given.lines) = 2
  /\ given.lines[1].sep = <<",">>
  /\ given.lines[1].text = <<>>
  /\ given.lines[2].sep = <<>>
  /\ given.lines[2].id # <<>>
  /\ result[1] = <<>>

\* C18: a response made of the header row and one row  <segment_id>,<text>
\* for each of some of the segments of a group's request is parsed into
\* exactly these pairs, in row order.
C18_RowsOfTheRequestParsed ==
  Parsed("rows") => result[1] = given.rows

\* C27: when a response holds a parseable block, the result is what the
\* block grammar yields and nothing else: one pair per block, and the
\* id,text rows on other lines of the response contribute no pair.
C27_LinesIgnoredWhenABlockParses ==
  Parsed("mixed") =>
    /\ result[1] = Format1(StripHeader(args[1]), 1)
    /\ Len(result[1]) = 1
    /\ result[1][1][1] = given.block[1]

\* C27 witness: a response with a row before its block and a row after it
\* has been parsed to the pair of the block alone.
C27_Witness ==
  /\ Parsed("mixed")
  /\ given.before # <<>>
  /\ given.after # <<>>
  /\ result[1] = <<given.block>>

(***************************************************************************)
(* Calls of build_strict_matcher_prompt on lists of segment files          *)
(***************************************************************************)

\* the most segment files of a request
MaxSegments == 2

\* the segment files a request may be built from
PromptFiles == {<<"s", "1", ".", "t", "x", "t">>,
   <<"s", "2", ".", "t", "x", "t">>,
   <<"s", "3", ".", "t", "x", "t">>}

\* the reference texts
Transcripts == {DocumentText, <<"z">>}

\* a call of build_strict_matcher_prompt(segment_files, full_transcript) about
\* to be made for the segment files of a group, some of which cannot be read
InitPrompt ==
  /\ InitBatch
  /\ InitTrackerIdle
  /\ given \in {[kind |-> "prompt", group |-> g, unreadable |-> U] :
                  g \in Groups, U \in SUBSET PromptFiles}
  /\ args \in SeqsUpTo(PromptFiles, MaxSegments) \X Transcripts
  /\ result = <<>>

\* the call returns the prompt
CallBuilder ==
  /\ given.kind = "prompt"
  /\ result = <<>>
  /\ result' = <<build_strict_matcher_prompt(given.group, args[1], args[2])>>
  /\ UNCHANGED <<given, args, batch_vars, tracker_vars>>

NextPrompt == CallBuilder

SpecPrompt == InitPrompt /\ [][NextPrompt]_vars

\* the segment file can be read in the call at hand
CanRead(file) == file \notin given.unreadable

\* C19: the prompt holds, after its instructions, one block  --- <id> ---
\* with the segment's text for each segment file that can be read, in the
\* order of the list and none for a file that cannot be read, then the label
\* Transcript: and the full reference text; the call returns also when some
\* file cannot be read.
C19_BlocksThenReference ==
  Parsed("prompt") =>
    LET readable == SelectSeq(args[1], CanRead)
    IN  /\ result[1].blocks =
             [i \in 1..Len(readable) |->
                <<"-", "-", "-", " ">> \o Stem(readable[i])
                  \o <<" ", "-", "-", "-", "\n">>
                  \o SegmentText(given.group, readable[i]) \o <<"\n", "\n">>]
        /\ result[1].label = "Transcript:"
        /\ result[1].transcript = args[2] \o <<"\n">>

\* C19 witness: a prompt was built from two segment files of which the first
\* cannot be read and the second can.
C19_Witness ==
  /\ Parsed("prompt")
  /\ Len(args[1]) = 2
  /\ ~CanRead(args[1][1])
  /\ CanRead(args[1][2])
  /\ Len(result[1].blocks) = 1

(***************************************************************************)
(* Calls of find_corresponding_full_transcript on keys that differ in case *)
(***************************************************************************)

\* partition folders of the segment directory
Partitions ==
  {<<"m", "a", "y">>, <<"M", "a", "y">>,
   <<"N", "o", "v", "e", "m", "b", "e", "r">>}

\* leaf folder names, each in three spellings that differ in letter case only:
\* a key of the table, a key of the table whose file is spelled otherwise on
\* disk, a name the table does not hold
LeafSpellings ==
  <<<<<<"K", "o", "n", "k", " ", "P", "r", "i", "m", "e", "_", "0", "1", "0", "5", "1", "7">>,
      <<"k", "o", "n", "k", " ", "p", "r", "i", "m", "e", "_", "0", "1", "0", "5", "1", "7">>,
      <<"K", "O", "N", "K", " ", "P", "R", "I", "M", "E", "_", "0", "1", "0", "5", "1", "7">>>>,
    <<<<"0", "3", " ", "n", "o", "v", " ", "1", "7", "_", "K", "o", "n", "k", " ", "P", "r", "i", "m", "e", " ", "N", "e", "w", "s">>,
      <<"0", "3", " ", "N", "O", "V", " ", "1", "7", "_", "k", "o", "n", "k", " ", "p", "r", "i", "m", "e", " ", "n", "e", "w", "s">>,
      <<"0", "3", " ", "N", "o", "v", " ", "1", "7", "_", "K", "O", "N", "K", " ", "P", "R", "I", "M", "E", " ", "N", "E", "W", "S">>>>,
    <<<<"K", "o", "n", "k", " ", "E", "x", "t", "r", "a", "_", "0", "2", "0", "5", "1", "7">>,
      <<"k", "o", "n", "k", " ", "e", "x", "t", "r", "a", "_", "0", "2", "0", "5", "1", "7">>,
      <<"K", "O", "N", "K", " ", "E", "X", "T", "R", "A", "_", "0", "2", "0", "5", "1", "7">>>>>>

\* the reference documents there may be: the May document as the table
\* spells it and in lower case, the November document in lower case
ReferenceFiles ==
  {<<<<"M", "a", "y", "c", "l", "e", "a", "n", "e", "d">>, <<"1", " ", "M", "A", "Y", " ", "P", "R", "I", "M", "E", "_", "n", "o", "n", "_", "b", "o", "l", "d", ".", "o", "d", "t">>>>,
   <<<<"M", "a", "y", "c", "l", "e", "a", "n", "e", "d">>, <<"1", " ", "m", "a", "y", " ", "p", "r", "i", "m", "e", "_", "n", "o", "n", "_", "b", "o", "l", "d", ".", "o", "d", "t">>>>,
   <<<<"N", "o", "v", "e", "m", "b", "e", "r", "c", "l", "e", "a", "n", "e", "d">>, <<"3", " ", " ", "n", "o", "v", " ", " ", "p", "r", "i", "m", "e", "_", "n", "o", "n", "_", "b", "o", "l", "d", ".", "o", "d", "t">>>>}

\* two calls about to be made on two spellings of one leaf name under one
\* partition, with one state of the cleaned-transcript directory
InitResolver ==
  /\ InitBatch
  /\ InitTrackerIdle
  /\ \E part \in Partitions, l \in DOMAIN LeafSpellings,
        a \in 1..3, b \in 1..3, dir \in SUBSET ReferenceFiles :
       /\ given = [kind |-> "resolve",
                   again |-> <<part, LeafSpellings[l][b]>>]
       /\ args = <<<<part, LeafSpellings[l][a]>>, dir>>
  /\ result = <<>>

\* the first call returns
CallResolver ==
  /\ given.kind = "resolve"
  /\ result = <<>>
  /\ result' = <<find_corresponding_full_transcript(args[1], args[2])>>
  /\ UNCHANGED <<given, args, batch_vars, tracker_vars>>

\* the call with the other spelling returns
CallResolverAgain ==
  /\ given.kind = "resolve"
  /\ Len(result) = 1
  /\ result' = Append(result,
                      find_corresponding_full_transcript(given.again, args[2]))
  /\ UNCHANGED <<given, args, batch_vars, tracker_vars>>

NextResolver == CallResolver \/ CallResolverAgain

SpecResolver == InitResolver /\ [][NextResolver]_vars

\* both calls have returned
ResolvedTwice == given.kind = "resolve" /\ Len(result) = 2

\* C20: two calls of the resolver on keys under one partition whose leaf
\* names are equal or differ in letter case only, with the same files in the
\* cleaned-transcript directory, return the same result.
C20_SameResultWhateverTheCase ==
  ResolvedTwice => result[1] = result[2]

\* C20 witness: two different spellings of a mapped leaf name have both been
\* resolved to a reference document.
C20_Witness ==
  /\ ResolvedTwice
  /\ args[1] # given.again
  /\ result[1] # NoPath
  /\ result[2] # NoPath

(***************************************************************************)
(* One call of find_corresponding_full_transcript, its warning included    *)
(***************************************************************************)

\* parent folder names: one the partition table knows, one only the
\* abbreviation table knows, one neither knows
ParentNames ==
  {<<"M", "a", "y">>,
   <<"n", "o", "v", "1", "7">>,
   <<"m", "i", "s", "c">>}

\* leaf folder names: two of the mapping table (the second in another
\* spelling than the table's) and one the table does not have
LeafNames ==
  {<<"K", "o", "n", "k", " ", "P", "r", "i", "m", "e", "_", "0", "1", "0", "5", "1", "7">>,
   <<"0", "3", " ", "N", "O", "V", " ", "1", "7", "_", "k", "o", "n", "k", " ", "p", "r", "i", "m", "e", " ", "n", "e", "w", "s">>,
   <<"K", "o", "n", "k", " ", "E", "x", "t", "r", "a", "_", "0", "2", "0", "5", "1", "7">>}

\* the files there may be under the cleaned-transcript directory
LookupFiles ==
  ReferenceFiles \cup
  {<<<<"n", "o", "v", "e", "m", "b", "e", "r">>, <<"3", " ", " ", "N", "O", "V", " ", " ", "P", "R", "I", "M", "E", "_", "n", "o", "n", "_", "b", "o", "l", "d", ".", "o", "d", "t">>>>,
   <<<<"n", "o", "v", "e", "m", "b", "e", "r">>, <<"3", " ", " ", "n", "o", "v", " ", " ", "p", "r", "i", "m", "e", "_", "n", "o", "n", "_", "b", "o", "l", "d", ".", "o", "d", "t">>>>,
   <<<<"M", "a", "y", "c", "l", "e", "a", "n", "e", "d">>, <<"3", " ", " ", "n", "o", "v", " ", " ", "p", "r", "i", "m", "e", "_", "n", "o", "n", "_", "b", "o", "l", "d", ".", "o", "d", "t">>>>}

\* a call about to be made
InitLookup ==
  /\ InitBatch
  /\ InitTrackerIdle
  /\ given = [kind |-> "lookup"]
  /\ \E parent \in ParentNames, leaf \in LeafNames, dir \in SUBSET LookupFiles :
       args = <<<<parent, leaf>>, dir>>
  /\ result = <<>>

\* the call returns: <<the path or None, the warning printed>>
CallLookup ==
  /\ given.kind = "lookup"
  /\ result = <<>>
  /\ result' = <<find_corresponding_full_transcript(args[1], args[2]),
                 resolver_warning(args[1], args[2])>>
  /\ UNCHANGED <<given, args, batch_vars, tracker_vars>>

NextLookup == CallLookup

SpecLookup == InitLookup /\ [][NextLookup]_vars

\* the call has returned
LookedUp == given.kind = "lookup" /\ result # <<>>

\* the file names the mapping table gives for a leaf name
MappedFiles(leaf) ==
  {SEGMENT_TO_TRANSCRIPT_MAP[i][2] : i \in
     {j \in 1..Len(SEGMENT_TO_TRANSCRIPT_MAP) :
        Lower(SEGMENT_TO_TRANSCRIPT_MAP[j][1]) = Lower(leaf)}}

\* the partitions a parent name determines: by the partition table, or else
\* by the abbreviation table
PartitionsOf(parent) ==
  LET canonical ==
        {MONTH_FOLDER_MAP[i][2] : i \in
           {j \in 1..Len(MONTH_FOLDER_MAP) :
              Contains(Lower(parent), MONTH_FOLDER_MAP[j][1])}}
      fallback ==
        {month_map[i][2] : i \in
           {j \in 1..Len(month_map) :
              \/ Contains(Lower(parent), month_map[j][1])
              \/ Contains(Lower(parent), month_map[j][2])}}
  IN  IF canonical # {} THEN canonical ELSE fallback

\* the files of dir that are the mapped file of the leaf, in any letter
\* case, in the partition of the parent
Documents(segment_subfolder, dir) ==
  {f \in dir :
     /\ f[1] \in PartitionsOf(segment_subfolder[1])
     /\ \E name \in MappedFiles(segment_subfolder[2]) : Lower(f[2]) = Lower(name)}

\* the reason of a failure, from the warning printed
ReasonOf(warning) ==
  CASE warning = "No mapping found" -> "NoMapping"
    [] warning = "Could not determine month" -> "NoPartition"
    [] warning \in {"Month folder not found", "Transcript file not found"}
         -> "DocumentMissing"
    [] OTHER -> "none"

MaxMatches == 2

\* the number of times step 7 is run on one directory with the same matches
MaxRounds == 2

\* the characters that separate the parts of a path
PathSeparators == {"/", "\\"}

\* the parts of a name between its separators, empty parts dropped
RECURSIVE PathParts(_)
PathParts(name) ==
  LET seps == {i \in 1..Len(name) : name[i] \in PathSeparators}
  IN  IF seps = {} THEN (IF name = <<>> THEN <<>> ELSE <<name>>)
      ELSE LET i == SetMin(seps)
           IN  (IF i = 1 THEN <<>> ELSE <<SubSeq(name, 1, i - 1)>>)
                 \o PathParts(SubSeq(name, i + 1, Len(name)))

\* full_output_dir / safe_filename: a path is the sequence of its parts; a
\* name that begins with a separator replaces the directory
PathJoin(base, name) ==
  IF name # <<>> /\ name[1] \in PathSeparators
    THEN PathParts(name)
    ELSE base \o PathParts(name)

\* the file a path names when it is opened: "." stays, ".." goes one up
RECURSIVE ResolveFrom(_, _)
ResolveFrom(done, rest) ==
  IF rest = <<>> THEN done
  ELSE IF rest[1] = <<".">> THEN ResolveFrom(done, Tail(rest))
  ELSE IF rest[1] = <<".", ".">>
    THEN ResolveFrom(IF done = <<>> THEN <<>> ELSE SubSeq(done, 1, Len(done) - 1),
                     Tail(rest))
  ELSE ResolveFrom(Append(done, rest[1]), Tail(rest))

Resolve(path) == ResolveFrom(<<>>, path)

\* full_output_dir of the call: the output root and the group folder
SaveDir == <<<<"t">>, <<"g">>>>

\* the segment ids of the matches
SaveIds ==
  {<<"s", "1">>,
   <<"s", "1", ".", "t", "x", "t">>,
   <<"a", "/", "b">>,
   <<".", ".", "\\", "x">>,
   <<"a", "b", "c", "d", "e", "f", "g", "h">>}

\* the matched texts
SaveTexts == {<<"x">>, <<"y">>}

\* len(str(full_output_dir)): a usual directory, and deep ones that leave 8
\* and 3 characters for the file name
BasePathLens == {50, 237, 242}

\* the files under the output root before the call
PriorFiles ==
  {EmptyDir,
   [q \in {Append(SaveDir, <<"s", "1", ".", "t", "x", "t">>)} |-> <<"o">>],
   [q \in {Append(SaveDir, <<"z", "z", ".", "t", "x", "t">>)} |-> <<"o">>]}

\* output_folder.glob("*.txt"): the *.txt files of the group's directory
OldTxtFiles(fs) ==
  {q \in DOMAIN fs :
     /\ Len(q) = Len(SaveDir) + 1
     /\ SubSeq(q, 1, Len(SaveDir)) = SaveDir
     /\ EndsWith(q[Len(q)], TxtExt)}

\* step 7 begins: reprocess_partial.main deletes the old files first (clear),
\* gemini_automator.main calls save_matched_outputs at once
BeginStep7(clear, fs, before, round) ==
  [kind |-> "save", clear |-> clear, round |-> round,
   pc |-> IF clear THEN "delete" ELSE "mkdir",
   old_files |-> IF clear THEN OldTxtFiles(fs) ELSE {},
   before |-> before, fs |-> fs,
   next |-> 1, saved_count |-> 0, log |-> <<>>]

\* step 7 about to be taken: args are the matches and the length of the
\* directory path; given holds the file system (path to text), the locals of
\* the step and the writes attempted so far
InitSave ==
  /\ InitBatch
  /\ InitTrackerIdle
  /\ \E ms \in SeqsUpTo(SaveIds \X SaveTexts, MaxMatches),
        n \in BasePathLens, fs \in PriorFiles, clear \in BOOLEAN :
       /\ args = <<ms, n>>
       /\ given = BeginStep7(clear /\ ms # <<>>, fs, fs, 1)
  /\ result = <<>>

\* a clearing that deletes nothing
SaveDeleteNothing ==
  /\ given.kind = "save" /\ given.pc = "delete" /\ given.old_files # {}
  /\ given' = [given EXCEPT !.old_files = {}]
  /\ UNCHANGED <<args, result, batch_vars, tracker_vars>>

\* old_file.unlink() for one of the old files
SaveDeleteOld ==
  /\ given.kind = "save" /\ given.pc = "delete"
  /\ \E q \in given.old_files :
       given' = [given EXCEPT !.fs = Unlink(@, q), !.old_files = @ \ {q}]
  /\ UNCHANGED <<args, result, batch_vars, tracker_vars>>

\* old_file.unlink() raises: step 7 ends with the exception
SaveDeleteFail ==
  /\ given.kind = "save" /\ given.pc = "delete" /\ given.old_files # {}
  /\ given' = [given EXCEPT !.pc = "raised"]
  /\ UNCHANGED <<args, result, batch_vars, tracker_vars>>

\* every old file is deleted: save_matched_outputs is called
SaveDeleteDone ==
  /\ given.kind = "save" /\ given.pc = "delete" /\ given.old_files = {}
  /\ given' = [given EXCEPT !.pc = "mkdir"]
  /\ UNCHANGED <<args, result, batch_vars, tracker_vars>>

\* the name and the path of the match the loop is at
SaveName == SafeFilename(args[1][given.next][1], args[2])

SavePath == PathJoin(SaveDir, SaveName)

Saving == given.kind = "save" /\ given.pc = "write" /\ given.next <= Len(args[1])

\* the record of one write attempted
Attempt(ok) ==
  [id |-> args[1][given.next][1], text |-> args[1][given.next][2],
   name |-> SaveName, path |-> Resolve(SavePath), ok |-> ok]

\* full_output_dir.mkdir(parents=True, exist_ok=True)
SaveMkdirOk ==
  /\ given.kind = "save" /\ given.pc = "mkdir"
  /\ given' = [given EXCEPT !.pc = "write"]
  /\ UNCHANGED <<args, result, batch_vars, tracker_vars>>

\* mkdir raises: the call ends with the exception, nothing is returned
SaveMkdirFail ==
  /\ given.kind = "save" /\ given.pc = "mkdir"
  /\ given' = [given EXCEPT !.pc = "raised"]
  /\ UNCHANGED <<args, result, batch_vars, tracker_vars>>

\* the match is written and counted
SaveWriteOk ==
  /\ Saving
  /\ given' = [given EXCEPT
                 !.fs = WriteFile(@, Resolve(SavePath), args[1][given.next][2]),
                 !.saved_count = @ + 1,
                 !.next = @ + 1,
                 !.log = Append(@, Attempt(TRUE))]
  /\ UNCHANGED <<args, result, batch_vars, tracker_vars>>

\* a failed write that ends the loop
SaveWriteFailEndsLoop ==
  /\ Saving
  /\ given' = [given EXCEPT !.next = Len(args[1]) + 1,
                            !.log = Append(@, Attempt(FALSE))]
  /\ UNCHANGED <<args, result, batch_vars, tracker_vars>>

\* open() raises and nothing is created, or the write raises after
\* open(path, 'w') has created or emptied the file; the exception is caught
\* and the loop goes on
SaveWriteFail ==
  /\ Saving
  /\ \E emptied \in BOOLEAN :
       given' = [given EXCEPT
                   !.fs = IF emptied THEN WriteFile(@, Resolve(SavePath), <<>>)
                          ELSE @,
                   !.next = @ + 1,
                   !.log = Append(@, Attempt(FALSE))]
  /\ UNCHANGED <<args, result, batch_vars, tracker_vars>>

\* return saved_count
SaveReturns ==
  /\ given.kind = "save" /\ given.pc = "write" /\ given.next > Len(args[1])
  /\ given' = [given EXCEPT !.pc = "returned"]
  /\ result' = <<given.saved_count>>
  /\ UNCHANGED <<args, batch_vars, tracker_vars>>

\* reprocess_partial.py is run once more on the group and the oracle answers
\* as before: step 7 again, with the same matches, on the directory as it is
SaveAgain ==
  /\ given.kind = "save" /\ given.pc = "returned"
  /\ given.clear
  /\ given.round < MaxRounds
  /\ given' = BeginStep7(TRUE, given.fs, given.before, given.round + 1)
  /\ result' = <<>>
  /\ UNCHANGED <<args, batch_vars, tracker_vars>>

NextSave ==
  \/ SaveDeleteOld
  \/ SaveDeleteFail
  \/ SaveDeleteDone
  \/ SaveAgain
  \/ SaveMkdirOk
  \/ SaveMkdirFail
  \/ SaveWriteOk
  \/ SaveWriteFail
  \/ SaveReturns

SpecSave == InitSave /\ [][NextSave]_vars

\* the name an id is to be written under: every forbidden character replaced
\* by the placeholder, the extension appended when absent
SanitizedName(id) ==
  LET replaced == [i \in 1..Len(id) |->
                     CASE id[i] = "<" -> "_" [] id[i] = ">" -> "_"
                       [] id[i] = ":" -> "_" [] id[i] = "\"" -> "_"
                       [] id[i] = "/" -> "_" [] id[i] = "\\" -> "_"
                       [] id[i] = "|" -> "_" [] id[i] = "?" -> "_"
                       [] id[i] = "*" -> "_" [] OTHER -> id[i]]
  IN  IF EndsWith(replaced, TxtExt) THEN replaced ELSE replaced \o TxtExt

\* the writes attempted so far by the call of save_matched_outputs
SaveLog == IF given.kind = "save" THEN given.log ELSE <<>>

\* every file the call has created or changed is a file of the group's
\* output directory itself
OnlyInSaveDir ==
  given.kind = "save" =>
    \A q \in DOMAIN given.fs :
      \/ q \in DOMAIN given.before /\ given.fs[q] = given.before[q]
      \/ Len(q) = Len(SaveDir) + 1 /\ SubSeq(q, 1, Len(SaveDir)) = SaveDir

\* max_filename_length of the call
SaveMaxLen == MaxPathLen - args[2] - SafetyBuffer

\* short is full with its part before the extension cut to a prefix
Shortened(short, full) ==
  /\ EndsWith(short, TxtExt)
  /\ Len(short) <= Len(full)
  /\ SubSeq(short, 1, Len(short) - Len(TxtExt))
       = SubSeq(full, 1, Len(short) - Len(TxtExt))

\* C22 (as amended): every artifact is written directly inside the group's
\* output directory, never in a parent, child or sibling directory, under
\* the id with each forbidden character replaced by "_" and .txt appended
\* when absent, or, when that name is longer than the maximum filename
\* length, under a shortened form of it (a prefix of its part before the
\* extension, followed by .txt).
C22_InGroupDirUnderCleanedOrShortenedId ==
  /\ OnlyInSaveDir
  /\ \A i \in DOMAIN SaveLog :
       LET a == SaveLog[i]
       IN  /\ a.path = Append(SaveDir, a.name)
           /\ \/ a.name = SanitizedName(a.id)
              \/ /\ Len(SanitizedName(a.id)) > SaveMaxLen
                 /\ Shortened(a.name, SanitizedName(a.id))

\* C22 witness: an id with a forbidden character has been written, and the
\* artifact is in the group's output directory under the cleaned name.
C22_Witness ==
  \E i \in DOMAIN SaveLog :
    LET a == SaveLog[i]
    IN  /\ a.ok
        /\ \E k \in DOMAIN a.id : a.id[k] \in ForbiddenChars
        /\ a.name = SanitizedName(a.id)
        /\ Append(SaveDir, a.name) \in DOMAIN given.fs
        /\ given.fs[Append(SaveDir, a.name)] = a.text

\* C22 (as stated): every artifact is written directly inside the group's
\* output directory under the id with each forbidden character replaced by
\* "_" and .txt appended when absent, whatever the id.
C22_InGroupDirUnderCleanedId ==
  /\ OnlyInSaveDir
  /\ \A i \in DOMAIN SaveLog :
       /\ SaveLog[i].path = Append(SaveDir, SaveLog[i].name)
       /\ SaveLog[i].name = SanitizedName(SaveLog[i].id)

\* C23: every name save_matched_outputs writes under ends with .txt, and
\* whenever the cleaned name is longer than the maximum filename length (255
\* minus the directory path length minus 10) the name written is no longer
\* than that maximum.
C23_TruncatedNameFits ==
  \A i \in DOMAIN SaveLog :
    /\ EndsWith(SaveLog[i].name, TxtExt)
    /\ Len(SanitizedName(SaveLog[i].id)) > SaveMaxLen =>
         Len(SaveLog[i].name) <= SaveMaxLen

\* the call of save_matched_outputs has returned
SaveReturned == given.kind = "save" /\ given.pc = "returned"

\* the number of writes of a log that succeeded
Succeeded(log) == Cardinality({i \in DOMAIN log : log[i].ok})

\* C24: save_matched_outputs attempts a write for every match of the list, in
\* order, also after an earlier write has failed, and returns the number of
\* matches whose write succeeded.
C24_EveryMatchAttemptedAndCounted ==
  /\ \A i \in DOMAIN SaveLog :
       /\ i <= Len(args[1])
       /\ SaveLog[i].id = args[1][i][1]
       /\ SaveLog[i].text = args[1][i][2]
  /\ SaveReturned =>
       /\ Len(SaveLog) = Len(args[1])
       /\ result = <<Succeeded(SaveLog)>>

\* C24 witness: a call has returned 1 after its first write failed and its
\* second write succeeded.
C24_Witness ==
  /\ SaveReturned
  /\ Len(SaveLog) = 2
  /\ ~SaveLog[1].ok
  /\ SaveLog[2].ok
  /\ result = <<1>>

\* the files a first-ever run leaves: save_matched_outputs on a directory
\* that holds fs, every write succeeding, for a directory path of n characters
RECURSIVE WriteAll(_, _, _)
WriteAll(fs, ms, n) ==
  IF ms = <<>> THEN fs
  ELSE WriteAll(WriteFile(fs,
                          Resolve(PathJoin(SaveDir, SafeFilename(ms[1][1], n))),
                          ms[1][2]),
                Tail(ms), n)

\* C25: whatever the group's directory held before, when its old artifacts
\* have been cleared and every match of the response has been written, the
\* directory holds the artifacts, names and texts, that a first-ever run
\* leaves for the same matches; this is so after every repetition of the
\* clear-and-rewrite.
C25_ClearAndRewriteAsFirstRun ==
  (SaveReturned /\ given.clear /\ result = <<Len(args[1])>>) =>
    given.fs = WriteAll(EmptyDir, args[1], args[2])

\* C25 witness: a directory that held an artifact of another name has been
\* cleared and rewritten for the last time of its repetitions, from two
\* matches, and the old artifact is gone.
C25_Witness ==
  /\ SaveReturned
  /\ given.clear
  /\ given.round = MaxRounds
  /\ Len(args[1]) = 2
  /\ result = <<2>>
  /\ given.before # EmptyDir
  /\ DOMAIN given.before \cap DOMAIN given.fs = {}

\* the write at index i of the log is the last one attempted on its path
LastOnPath(i) ==
  \A j \in (i + 1)..Len(SaveLog) : SaveLog[j].path # SaveLog[i].path

\* C28: every match whose write succeeded has an artifact under its name,
\* and the artifact holds the matched text as it is, unless a later match of
\* the same sanitized and truncated name was written after it: the artifact
\* then holds the later match's text; an artifact of that name left by an
\* earlier run is replaced in the same way.
C28_LaterWriteReplaces ==
  \A i \in DOMAIN SaveLog :
    (SaveLog[i].ok /\ LastOnPath(i)) =>
      /\ SaveLog[i].path \in DOMAIN given.fs
      /\ given.fs[SaveLog[i].path] = SaveLog[i].text

\* C28 witness: two matches of one call have been written under the same
\* name, which an artifact of an earlier run had before them; the artifact
\* holds the text of the second match, which differs from both others.
C28_Witness ==
  /\ Len(SaveLog) = 2
  /\ SaveLog[1].ok /\ SaveLog[2].ok
  /\ SaveLog[1].id # SaveLog[2].id
  /\ SaveLog[1].path = SaveLog[2].path
  /\ SaveLog[1].text # SaveLog[2].text
  /\ ~given.clear
  /\ SaveLog[2].path \in DOMAIN given.before
  /\ given.fs[SaveLog[2].path] = SaveLog[2].text

(***************************************************************************)
(* A group is processed for the first time, then count_files.py is run     *)
(***************************************************************************)

\* gemini_automator.main: OUTPUT_DIR, the folder under BASE_DIR it writes to
OUTPUT_DIR == "training"

\* count_training_files: training_dir, the folder under BASE_DIR it counts in
training_dir == "training_through_bot"

\* the segment files a group may have, in the order of the request
TrackedSegments ==
  <<<<"s", "1", ".", "t", "x", "t">>,
    <<"s", "2", ".", "t", "x", "t">>,
    <<"s", "3", ".", "t", "x", "t">>,
    <<"s", "4", ".", "t", "x", "t">>>>

\* the response of the block grammar that matches the segments at the
\* indexes I of the segment files with the texts t
BlocksFor(I, t) ==
  LET picked == SeqOfSet(I)
  IN  Join([j \in 1..Len(picked) |->
              RenderBlock(<<Stem(TrackedSegments[picked[j]]), t[picked[j]]>>)],
           <<" ">>)

\* what a folder under BASE_DIR may hold for the group before the run: the
\* folder is missing, or the group has some files there
FolderStates(n) ==
  {[exists |-> FALSE, dir |-> EmptyDir]} \cup
  {[exists |-> TRUE,
    dir |-> [f \in {TrackedSegments[i] : i \in 1..j} |-> <<"o">>]] : j \in 0..n}

\* a group of n segments is about to be processed for the first time
\* (nothing under OUTPUT_DIR yet); the oracle will answer with blocks for k
\* of them, 0 < k < n; args are the segment files and the response
InitProgress ==
  /\ InitBatch
  /\ InitTrackerIdle
  /\ \E n \in 2..(MaxSegments + 1) :
       \E I \in (SUBSET (1..n)) \ {{}, 1..n} :
         \E t \in [I -> {<<"x">>, <<"a", ",", "b">>}], other \in FolderStates(n) :
           /\ args = <<SubSeq(TrackedSegments, 1, n), BlocksFor(I, t)>>
           /\ given = [kind |-> "progress", pc |-> "process", k |-> Cardinality(I),
                       roots |-> [r \in {OUTPUT_DIR, training_dir} |->
                                    IF r = OUTPUT_DIR
                                      THEN [exists |-> TRUE, dir |-> EmptyDir]
                                      ELSE other]]
  /\ result = <<>>

\* steps 6 and 7 of gemini_automator.main for the group: the response is
\* parsed and its matches are written under OUTPUT_DIR
ProcessGroup ==
  /\ given.kind = "progress" /\ given.pc = "process"
  /\ given' = [given EXCEPT
                 !.pc = "count",
                 !.roots[OUTPUT_DIR].dir =
                    save_matched_outputs(@, parse_gemini_response(args[2]), 1)]
  /\ UNCHANGED <<args, result, batch_vars, tracker_vars>>

\* count_files.py: count_training_files lists training_dir (iterdir raises
\* when the folder is missing), count_segment_files the segment folder;
\* main prints the group's status with both counts
CountFiles ==
  /\ given.kind = "progress" /\ given.pc = "count"
  /\ given' = [given EXCEPT !.pc = "done"]
  /\ LET folder == given.roots[training_dir]
         training_count == CountArtifacts(folder.dir)
         segment_count == Len(args[1])
     IN  result' = IF folder.exists
                     THEN <<Status(segment_count, training_count),
                            training_count, segment_count>>
                     ELSE <<"FileNotFoundError", 0, segment_count>>
  /\ UNCHANGED <<args, batch_vars, tracker_vars>>

NextProgress == ProcessGroup \/ CountFiles

SpecProgress == InitProgress /\ [][NextProgress]_vars

\* C26: after the first processing of a group of n segments with a
\* block-grammar response that matches k of them, 0 < k < n, the group has
\* exactly k artifacts and the progress tracker reports it Partial (k/n).
C26_TrackerReportsPartial ==
  (given.kind = "progress" /\ given.pc = "done") =>
    /\ CountArtifacts(given.roots[OUTPUT_DIR].dir) = given.k
    /\ result = <<"Partial", given.k, Len(args[1])>>

(***************************************************************************)
(* More properties of the batch                                            *)
(***************************************************************************)

\* C29: a step removes an artifact of a group only when it is the deleting
\* step of reprocess_partial in that group's turn, taken after the group's
\* new response has been parsed to at least one match; no step of the main
\* run and no other step of a turn (resolution or loading failure, empty
\* response, response without match, write) removes an artifact.
C29_DeletedOnlyByReprocessAfterMatches ==
  [][\A g \in Groups :
       (\E n \in DOMAIN training[g] : n \notin DOMAIN training'[g]) =>
         /\ script = "reprocess_partial"
         /\ pc = "delete"
         /\ g = full_output_dir(Current)
         /\ response # <<>>
         /\ matches = ParsedResponse[response]
         /\ matches # <<>>]_vars

\* C29 witness: reprocess_partial has parsed a response with a match and has
\* deleted an artifact the group held when its turn began.
C29_Witness ==
  /\ script = "reprocess_partial"
  /\ InTurn
  /\ pc \in {"delete", "mkdir"}
  /\ matches # <<>>
  /\ \E n \in DOMAIN prior : n \notin DOMAIN CurrentDir

\* a number that every step of a run makes smaller: the groups still to
\* begin weigh more than any position of a turn, and the positions of a turn
\* are numbered from its end, the files still to delete and the matches
\* still to write counted in
Rank ==
  LET left == Len(WorkList) - processed_count
      turn == CASE pc = "start_browser" -> 32
                [] pc = "load" -> 31
                [] pc = "build" -> 30
                [] pc = "send" -> 29
                [] pc = "wait" -> 28
                [] pc = "read_early" -> 27
                [] pc = "read" -> 26
                [] pc = "parse" -> 25
                [] pc = "delete" -> 14 + Cardinality(old_files)
                [] pc = "mkdir" -> 13
                [] pc = "write" -> 3 + Len(matches) - next_match
                [] pc = "newchat" -> 1
                [] OTHER -> 0
  IN  CASE pc \in {"idle", "exited"} -> 0
        [] pc = "finally" -> 1
        [] OTHER -> 2 + 40 * left + turn

\* C30: every run ends (each of its steps makes Rank smaller, and Rank is
\* never below 0); a step that begins a group's turn begins the turn of a
\* group not attempted before in the run, a step that submits a request
\* submits it for a group without a request in the run; and the step that
\* ends the run is taken from the finally block and leaves no browser open.
C30_TerminatesAndClosesBrowser ==
  [][/\ Rank >= 0
     /\ pc \notin {"idle", "exited"} => Rank' < Rank
     /\ processed_count' = processed_count + 1 =>
          folders'[processed_count'] \notin attempted
     /\ (pc = "send" /\ pc' = "wait") => Current \notin requested
     /\ (pc # "exited" /\ pc' = "exited") =>
          pc = "finally" /\ browser' \in {"none", "closed"}]_vars

====
